---- MODULE Spec2Model ----
(***************************************************************************)
(* A model of structpath: the path value and its builder (types.rs), the   *)
(* parser (parse.rs), the formatter (format.rs), get (access.rs), write    *)
(* (write.rs), the walker (walk.rs) and the variable iterator (iter.rs).   *)
(*                                                                         *)
(* Text is a sequence of one-character strings; a tree value is a record   *)
(* [kind, num, kids] whose kids are entries [key, node]; an object keeps   *)
(* its entries sorted by key, as serde_json's default BTreeMap does.       *)
(***************************************************************************)
EXTENDS Integers, Sequences, FiniteSets, TLC

VARIABLES
    path,      \* the Structpath under construction (types.rs:22-25)
    outcome,   \* the Result of the last builder or parse call: its error
    lastop,    \* the last operation on the path, with its argument
    events,    \* the segment completions of the last call, when it was parse
    rt,        \* the last format-then-parse round trip
    tree,      \* the caller's tree slot (write's data, get's data)
    call,      \* the last get/write call: its inputs and its Result
    walker,    \* a Walker (walk.rs:18-20) and what it has emitted
    iter       \* a VariableIterator (iter.rs:14-18) and what it has emitted

vars == <<path, outcome, lastop, events, rt, tree, call, walker, iter>>

(***************************************************************************)
(* Bounds of the model.                                                    *)
(***************************************************************************)
MaxTextLen == 4     \* parse inputs: every text over Alphabet up to this length
MaxSegs == 3        \* builder calls are made while the path is shorter
MaxPathLen == 2     \* get and write are called with paths up to this length
MaxWalkDepth == 2   \* the walker's trees nest containers up to this depth
MaxTeams == 2       \* iterate's team trees have up to this many teams and members

----------------------------------------------------------------------------
(***************************************************************************)
(* Text and numbers: str::parse::<i64>, str::parse::<usize>, to_string.    *)
(***************************************************************************)
DigitChars == <<"0", "1", "2", "3", "4", "5", "6", "7", "8", "9">>

IsDigit(c) == \E d \in 1..10 : DigitChars[d] = c

DigitVal(c) == (CHOOSE d \in 1..10 : DigitChars[d] = c) - 1

RECURSIVE DigitsValue(_)
DigitsValue(s) ==
    IF s = <<>> THEN 0
    ELSE DigitsValue(SubSeq(s, 1, Len(s) - 1)) * 10 + DigitVal(s[Len(s)])

AllDigits(s) == s # <<>> /\ \A k \in 1..Len(s) : IsDigit(s[k])

\* segment.parse::<i64>(): an optional sign, then one or more digits.  The
\* texts of the model are far shorter than 19 digits, so the overflow error
\* of the real function cannot arise and is not modelled.
parse_i64(s) ==
    IF s = <<>> THEN [ok |-> FALSE, val |-> 0]
    ELSE IF s[1] = "-" THEN
        IF AllDigits(Tail(s)) THEN [ok |-> TRUE, val |-> 0 - DigitsValue(Tail(s))]
        ELSE [ok |-> FALSE, val |-> 0]
    ELSE IF s[1] = "+" THEN
        IF AllDigits(Tail(s)) THEN [ok |-> TRUE, val |-> DigitsValue(Tail(s))]
        ELSE [ok |-> FALSE, val |-> 0]
    ELSE IF AllDigits(s) THEN [ok |-> TRUE, val |-> DigitsValue(s)]
    ELSE [ok |-> FALSE, val |-> 0]

\* segment.parse::<usize>(): an optional plus sign, then one or more digits.
parse_usize(s) ==
    IF s = <<>> THEN [ok |-> FALSE, val |-> 0]
    ELSE IF s[1] = "+" THEN
        IF AllDigits(Tail(s)) THEN [ok |-> TRUE, val |-> DigitsValue(Tail(s))]
        ELSE [ok |-> FALSE, val |-> 0]
    ELSE IF AllDigits(s) THEN [ok |-> TRUE, val |-> DigitsValue(s)]
    ELSE [ok |-> FALSE, val |-> 0]

RECURSIVE NatText(_)
NatText(n) ==
    IF n < 10 THEN <<DigitChars[n + 1]>>
    ELSE NatText(n \div 10) \o <<DigitChars[(n % 10) + 1]>>

\* i64::to_string / usize's Display
int_to_string(i) == IF i < 0 THEN <<"-">> \o NatText(0 - i) ELSE NatText(i)

----------------------------------------------------------------------------
(***************************************************************************)
(* types.rs: Segment, SegmentKey, Structpath, StructpathError, the builder.*)
(***************************************************************************)
KeyString(s) == [tag |-> "KeyString", text |-> s, num |-> 0]
KeyInt(i) == [tag |-> "KeyInt", text |-> <<>>, num |-> i]
Index(n) == [tag |-> "Index", text |-> <<>>, num |-> n]
KeyVariable(name) == [tag |-> "KeyVariable", text |-> name, num |-> 0]
IndexVariable(name) == [tag |-> "IndexVariable", text |-> name, num |-> 0]

IsVariableSegment(seg) == seg.tag \in {"KeyVariable", "IndexVariable"}

NoError == [kind |-> "Ok", msg |-> "", arg |-> <<>>]
ParseError(msg, arg) == [kind |-> "ParseError", msg |-> msg, arg |-> arg]
DuplicateVariable(name) == [kind |-> "DuplicateVariable", msg |-> "", arg |-> name]
NotFound == [kind |-> "NotFound", msg |-> "", arg |-> <<>>]
InvalidPath(expected) == [kind |-> "InvalidPath", msg |-> expected, arg |-> <<>>]
\* the message carries the requested index and the array's length
IndexOutOfBounds(idx, len) ==
    [kind |-> "IndexOutOfBounds", msg |-> "",
     arg |-> int_to_string(idx) \o <<"/">> \o int_to_string(len)]
MissingVariable(name) == [kind |-> "MissingVariable", msg |-> "", arg |-> name]
InvalidVariableValue(v) == [kind |-> "InvalidVariableValue", msg |-> "", arg |-> v]

\* Structpath::new
NewPath == [segments |-> <<>>, variable_names |-> {}]

\* Result<Structpath, StructpathError> (for the builder: the path after the
\* call, and the error it returned)
PathOk(p) == [ok |-> TRUE, path |-> p, err |-> NoError]
PathErr(p, e) == [ok |-> FALSE, path |-> p, err |-> e]

push_string_key(p, key) ==
    [p EXCEPT !.segments = Append(@, KeyString(key))]

push_int_key(p, key) ==
    [p EXCEPT !.segments = Append(@, KeyInt(key))]

push_index(p, index) ==
    [p EXCEPT !.segments = Append(@, Index(index))]

\* push_key_variable appending the segment before it looks at the set
push_key_variable_push_first(p, name) ==
    IF name \in p.variable_names
    THEN PathErr([p EXCEPT !.segments = Append(@, KeyVariable(name))],
                 DuplicateVariable(name))
    ELSE PathOk([segments |-> Append(p.segments, KeyVariable(name)),
                 variable_names |-> p.variable_names \cup {name}])

\* HashSet::insert returns false, and leaves the set alone, when the name is
\* already there; the early return then leaves the segments alone too.
push_key_variable(p, name) ==
    IF name \in p.variable_names
    THEN PathErr(p, DuplicateVariable(name))
    ELSE PathOk([segments |-> Append(p.segments, KeyVariable(name)),
                 variable_names |-> p.variable_names \cup {name}])

\* push_index_variable without the test of the used-name set
push_index_variable_unchecked(p, name) ==
    PathOk([segments |-> Append(p.segments, IndexVariable(name)),
            variable_names |-> p.variable_names \cup {name}])

push_index_variable(p, name) ==
    IF name \in p.variable_names
    THEN PathErr(p, DuplicateVariable(name))
    ELSE PathOk([segments |-> Append(p.segments, IndexVariable(name)),
                 variable_names |-> p.variable_names \cup {name}])

----------------------------------------------------------------------------
(***************************************************************************)
(* parse.rs.  The scanner's locals are the fields of a record; `raw` and   *)
(* `log` are history fields: raw holds the input characters consumed for   *)
(* the current segment (backslashes included) and log records every        *)
(* segment completion, so that properties can relate what was pushed to    *)
(* the text it came from.                                                  *)
(***************************************************************************)
ParseStart ==
    [path |-> NewPath, current_segment |-> <<>>, in_brackets |-> FALSE,
     escape_next |-> FALSE, is_escaped_segment |-> FALSE,
     first_char_escaped |-> FALSE, is_variable |-> FALSE,
     err |-> NoError, raw |-> <<>>, log |-> <<>>]

\* process_segment taking a lone `#` for a variable
process_segment_lone_hash(p, segment, first_char_escaped, is_escaped_segment, is_variable, in_brackets) ==
    IF is_variable /\ Len(segment) >= 1 /\ segment[1] = "#" THEN
        IF in_brackets THEN push_index_variable(p, Tail(segment))
        ELSE push_key_variable(p, Tail(segment))
    ELSE IF first_char_escaped \/ is_escaped_segment THEN
        PathOk(push_string_key(p, segment))
    ELSE IF parse_i64(segment).ok THEN
        PathOk(push_int_key(p, parse_i64(segment).val))
    ELSE PathOk(push_string_key(p, segment))

\* process_segment with the is_escaped_segment test left out
process_segment_first_only(p, segment, first_char_escaped, is_escaped_segment, is_variable, in_brackets) ==
    IF is_variable /\ Len(segment) > 1 /\ segment[1] = "#" THEN
        IF in_brackets THEN push_index_variable(p, Tail(segment))
        ELSE push_key_variable(p, Tail(segment))
    ELSE IF first_char_escaped THEN PathOk(push_string_key(p, segment))
    ELSE IF parse_i64(segment).ok THEN
        PathOk(push_int_key(p, parse_i64(segment).val))
    ELSE PathOk(push_string_key(p, segment))

\* parse.rs:116-147
process_segment(p, segment, first_char_escaped, is_escaped_segment, is_variable, in_brackets) ==
    IF is_variable /\ Len(segment) > 1 /\ segment[1] = "#" THEN
        IF in_brackets THEN push_index_variable(p, Tail(segment))
        ELSE push_key_variable(p, Tail(segment))
    ELSE IF first_char_escaped \/ is_escaped_segment THEN
        PathOk(push_string_key(p, segment))
    ELSE IF parse_i64(segment).ok THEN
        PathOk(push_int_key(p, parse_i64(segment).val))
    ELSE PathOk(push_string_key(p, segment))

\* parse.rs:67-87, the `]` arm
close_bracket(p, segment) ==
    IF Len(segment) > 1 /\ segment[1] = "#" THEN
        push_index_variable(p, Tail(segment))
    ELSE IF parse_usize(segment).ok THEN
        PathOk(push_index(p, parse_usize(segment).val))
    ELSE PathErr(p, ParseError("Invalid index", segment))

\* One completed segment: what was scanned and what the path became.
Event(st, r, bracket) ==
    [raw |-> st.raw, segment |-> st.current_segment, bracket |-> bracket,
     ok |-> r.ok,
     pushed |-> IF r.ok THEN r.path.segments[Len(r.path.segments)]
                ELSE KeyString(<<>>)]

\* The resets of parse.rs:44-47, 60-63 and 83-86 after a completed segment.
Completed(st, r, bracket, in_brackets) ==
    [st EXCEPT !.path = r.path, !.err = r.err,
               !.current_segment = <<>>, !.first_char_escaped = FALSE,
               !.is_escaped_segment = FALSE, !.is_variable = FALSE,
               !.in_brackets = in_brackets,
               !.raw = <<>>, !.log = Append(@, Event(st, r, bracket))]

FlushPlain(st) ==
    process_segment(st.path, st.current_segment, st.first_char_escaped,
                    st.is_escaped_segment, st.is_variable, st.in_brackets)

\* parse.rs:18-94, the body of the loop for one character
ParseChar(st, c) ==
    IF st.escape_next THEN
        [st EXCEPT !.current_segment = Append(@, c),
                   !.escape_next = FALSE,
                   !.first_char_escaped =
                       IF Len(st.current_segment) + 1 = 1 THEN TRUE ELSE @,
                   !.is_escaped_segment = TRUE,
                   !.raw = Append(@, c)]
    ELSE IF c = "\\" THEN
        [st EXCEPT !.escape_next = TRUE, !.raw = Append(@, c)]
    ELSE IF c = "." /\ ~st.in_brackets THEN
        IF st.current_segment # <<>>
        THEN Completed(st, FlushPlain(st), FALSE, st.in_brackets)
        ELSE st
    ELSE IF c = "[" /\ ~st.in_brackets THEN
        IF st.current_segment # <<>>
        THEN Completed(st, FlushPlain(st), FALSE, TRUE)
        ELSE [st EXCEPT !.in_brackets = TRUE]
    ELSE IF c = "]" /\ st.in_brackets THEN
        Completed(st, close_bracket(st.path, st.current_segment), TRUE, FALSE)
    ELSE IF c = "#" /\ st.current_segment = <<>> /\ ~st.in_brackets THEN
        [st EXCEPT !.is_variable = TRUE,
                   !.current_segment = Append(@, c), !.raw = Append(@, c)]
    ELSE [st EXCEPT !.current_segment = Append(@, c), !.raw = Append(@, c)]

\* The `?` of every push: the first error ends the loop.
RECURSIVE ParseLoop(_, _, _)
ParseLoop(chars, k, st) ==
    IF st.err.kind # "Ok" \/ k > Len(chars) THEN st
    ELSE ParseLoop(chars, k + 1, ParseChar(st, chars[k]))

\* the end of parse without the test of in_brackets
ParseEnd_no_bracket_test(st) ==
    IF st.err.kind # "Ok" THEN st
    ELSE IF st.current_segment # <<>>
    THEN Completed(st, FlushPlain(st), st.in_brackets, st.in_brackets)
    ELSE st

\* parse.rs:96-113, after the loop
ParseEnd(st) ==
    IF st.err.kind # "Ok" THEN st
    ELSE LET flushed == IF st.current_segment # <<>>
                        THEN Completed(st, FlushPlain(st), st.in_brackets,
                                       st.in_brackets)
                        ELSE st
         IN  IF flushed.err.kind # "Ok" THEN flushed
             ELSE IF flushed.in_brackets
             THEN [flushed EXCEPT !.err = ParseError("Unclosed bracket", <<>>)]
             ELSE flushed

\* parse.rs:3-114, with the history fields
ParseScan(path_str) ==
    LET chars == IF path_str # <<>> /\ path_str[1] = "$"
                 THEN Tail(path_str) ELSE path_str
    IN  ParseEnd(ParseLoop(chars, 1, ParseStart))

\* parse: Ok(path) or Err(error); no path is returned with an error
parse(path_str) ==
    LET st == ParseScan(path_str)
    IN  IF st.err.kind = "Ok" THEN PathOk(st.path) ELSE PathErr(NewPath, st.err)

----------------------------------------------------------------------------
(***************************************************************************)
(* format.rs                                                               *)
(***************************************************************************)
IsSpecialChar(c) == c \in {".", "[", "]", "\\", "#"}

\* escape_special_chars with `#` left out of the match
RECURSIVE escape_special_chars_no_hash(_)
escape_special_chars_no_hash(s) ==
    IF s = <<>> THEN <<>>
    ELSE (IF IsSpecialChar(s[1]) /\ s[1] # "#" THEN <<"\\", s[1]>> ELSE <<s[1]>>)
         \o escape_special_chars_no_hash(Tail(s))

RECURSIVE escape_special_chars(_)
escape_special_chars(s) ==
    IF s = <<>> THEN <<>>
    ELSE (IF IsSpecialChar(s[1]) THEN <<"\\", s[1]>> ELSE <<s[1]>>)
         \o escape_special_chars(Tail(s))

\* `first` is cleared by the first key or key variable only; a record
\* [text, first] is the pair (result, first) of the source.
Joined(acc) == IF acc.first THEN acc.text ELSE acc.text \o <<".">>

\* format_string_key without the backslash in front of integer-like keys
format_string_key_no_prefix(acc, string_key) ==
    [text |-> Joined(acc) \o escape_special_chars(string_key), first |-> FALSE]

format_string_key(acc, string_key) ==
    [text |-> Joined(acc)
              \o (IF parse_i64(string_key).ok THEN <<"\\">> ELSE <<>>)
              \o escape_special_chars(string_key),
     first |-> FALSE]

format_int_key(acc, int_key) ==
    [text |-> Joined(acc) \o int_to_string(int_key), first |-> FALSE]

format_key_variable(acc, var_name) ==
    [text |-> Joined(acc) \o <<"#">> \o var_name, first |-> FALSE]

format_index_variable(acc, var_name) ==
    [acc EXCEPT !.text = @ \o <<"[", "#">> \o var_name \o <<"]">>]

format_segment(acc, seg) ==
    CASE seg.tag = "KeyString" -> format_string_key(acc, seg.text)
      [] seg.tag = "KeyInt" -> format_int_key(acc, seg.num)
      [] seg.tag = "Index" ->
            [acc EXCEPT !.text = @ \o <<"[">> \o int_to_string(seg.num) \o <<"]">>]
      [] seg.tag = "KeyVariable" -> format_key_variable(acc, seg.text)
      [] seg.tag = "IndexVariable" -> format_index_variable(acc, seg.text)

RECURSIVE FormatLoop(_, _, _)
FormatLoop(segs, k, acc) ==
    IF k > Len(segs) THEN acc
    ELSE FormatLoop(segs, k + 1, format_segment(acc, segs[k]))

to_string(p) == FormatLoop(p.segments, 1, [text |-> <<"$">>, first |-> TRUE]).text

----------------------------------------------------------------------------
(***************************************************************************)
(* serde_json::Value.  An entry of an array has the empty key; an object's *)
(* entries are sorted by key and its keys are unique (BTreeMap).           *)
(***************************************************************************)
Null == [kind |-> "null", num |-> 0, kids |-> <<>>]
Bool(b) == [kind |-> "bool", num |-> IF b THEN 1 ELSE 0, kids |-> <<>>]
Number(n) == [kind |-> "number", num |-> n, kids |-> <<>>]
Array(entries) == [kind |-> "array", num |-> 0, kids |-> entries]
Object(entries) == [kind |-> "object", num |-> 0, kids |-> entries]
Entry(key, node) == [key |-> key, node |-> node]

is_object(v) == v.kind = "object"
is_array(v) == v.kind = "array"

\* the byte order of the characters that occur in keys
CharOrder ==
    <<"#", "$", "+", "-", ".", "0", "1", "2", "3", "4", "5", "6", "7", "8",
      "9", "[", "\\", "]", "a", "b", "c", "d", "e", "m", "s", "t", "u", "x", "y">>

CharCode(c) == CHOOSE k \in 1..Len(CharOrder) : CharOrder[k] = c

\* String's Ord: lexicographic by byte
RECURSIVE KeyLess(_, _)
KeyLess(a, b) ==
    IF b = <<>> THEN FALSE
    ELSE IF a = <<>> THEN TRUE
    ELSE IF a[1] = b[1] THEN KeyLess(Tail(a), Tail(b))
    ELSE CharCode(a[1]) < CharCode(b[1])

\* Map::contains_key
contains_key(entries, key) == \E k \in 1..Len(entries) : entries[k].key = key

\* the position of a key that the map holds
KeyPos(entries, key) == CHOOSE k \in 1..Len(entries) : entries[k].key = key

\* Map::get on a key that the map holds
map_get(entries, key) == entries[KeyPos(entries, key)].node

\* Map::insert: replaces the value of a key that is there, and otherwise
\* adds the entry at its place in key order
map_insert(entries, key, node) ==
    IF contains_key(entries, key)
    THEN [entries EXCEPT ![KeyPos(entries, key)].node = node]
    ELSE LET below == Cardinality({k \in 1..Len(entries) :
                                      KeyLess(entries[k].key, key)})
         IN  SubSeq(entries, 1, below) \o <<Entry(key, node)>>
             \o SubSeq(entries, below + 1, Len(entries))

----------------------------------------------------------------------------
(***************************************************************************)
(* access.rs.  Bindings are Option<&HashMap<String, String>>: a record     *)
(* [some, map] whose map is a function from names to texts.                *)
(***************************************************************************)
NoVars == [some |-> FALSE, map |-> <<>>]
SomeVars(m) == [some |-> TRUE, map |-> m]

ValOk(v) == [ok |-> TRUE, value |-> v, err |-> NoError]
ValErr(e) == [ok |-> FALSE, value |-> Null, err |-> e]

\* path.segments().iter().any(|s| matches!(s, KeyVariable | IndexVariable))
has_variables(p) ==
    \E k \in 1..Len(p.segments) : IsVariableSegment(p.segments[k])

MissingContext ==
    ParseError("Path contains variables, but no variable context was provided.",
               <<>>)

\* the lookup key without the i.to_string() of the Int arm
key_str_text_only(seg) == seg.text

\* the lookup key of a SegmentKey (access.rs:72-75, write.rs:125-128)
key_str(seg) == IF seg.tag = "KeyInt" THEN int_to_string(seg.num) ELSE seg.text

\* get_by_key on an object that lacks the key reporting InvalidPath
get_by_string_key_wrong_error(data, key) ==
    IF is_object(data) THEN
        IF contains_key(data.kids, key) THEN ValOk(map_get(data.kids, key))
        ELSE ValErr(InvalidPath("object"))
    ELSE ValErr(InvalidPath("object"))

\* access.rs:90-106 (and, with key_str, access.rs:67-88)
get_by_string_key(data, key) ==
    IF is_object(data) THEN
        IF contains_key(data.kids, key) THEN ValOk(map_get(data.kids, key))
        ELSE ValErr(NotFound)
    ELSE ValErr(InvalidPath("object"))

\* access.rs:67-88
get_by_key(data, seg) == get_by_string_key(data, key_str(seg))

\* access.rs:108-125
get_by_index(data, idx) ==
    IF is_array(data) THEN
        IF idx < Len(data.kids) THEN ValOk(data.kids[idx + 1].node)
        ELSE ValErr(IndexOutOfBounds(idx, Len(data.kids)))
    ELSE ValErr(InvalidPath("array"))

\* get_segment reporting a bound text that is no index as a missing variable
get_segment_same_error(current, seg, variables) ==
    CASE seg.tag \in {"KeyString", "KeyInt"} -> get_by_key(current, seg)
      [] seg.tag = "Index" -> get_by_index(current, seg.num)
      [] seg.tag = "KeyVariable" ->
            IF seg.text \notin DOMAIN variables.map
            THEN ValErr(MissingVariable(seg.text))
            ELSE get_by_string_key(current, variables.map[seg.text])
      [] seg.tag = "IndexVariable" ->
            IF seg.text \notin DOMAIN variables.map
            THEN ValErr(MissingVariable(seg.text))
            ELSE IF ~parse_usize(variables.map[seg.text]).ok
            THEN ValErr(MissingVariable(seg.text))
            ELSE get_by_index(current, parse_usize(variables.map[seg.text]).val)

\* access.rs:26-61, one segment
get_segment(current, seg, variables) ==
    CASE seg.tag \in {"KeyString", "KeyInt"} -> get_by_key(current, seg)
      [] seg.tag = "Index" -> get_by_index(current, seg.num)
      [] seg.tag = "KeyVariable" ->
            IF seg.text \notin DOMAIN variables.map
            THEN ValErr(MissingVariable(seg.text))
            ELSE get_by_string_key(current, variables.map[seg.text])
      [] seg.tag = "IndexVariable" ->
            IF seg.text \notin DOMAIN variables.map
            THEN ValErr(MissingVariable(seg.text))
            ELSE IF ~parse_usize(variables.map[seg.text]).ok
            THEN ValErr(InvalidVariableValue(variables.map[seg.text]))
            ELSE get_by_index(current, parse_usize(variables.map[seg.text]).val)

\* the loop going on after a failed segment, from the value it had reached,
\* and returning the error of the last segment that failed
RECURSIVE GetLoop_last_error(_, _, _, _)
GetLoop_last_error(segs, k, current, variables) ==
    IF k > Len(segs) THEN ValOk(current)
    ELSE LET r == get_segment(current, segs[k], variables)
             rest == GetLoop_last_error(segs, k + 1,
                                        IF r.ok THEN r.value ELSE current,
                                        variables)
         IN  IF r.ok \/ ~rest.ok THEN rest ELSE r

\* access.rs:25-64, the loop: the first error is returned
RECURSIVE GetLoop(_, _, _, _)
GetLoop(segs, k, current, variables) ==
    IF k > Len(segs) THEN ValOk(current)
    ELSE LET r == get_segment(current, segs[k], variables)
         IN  IF r.ok THEN GetLoop(segs, k + 1, r.value, variables) ELSE r

\* get without the test of access.rs:16-21: the variables are looked up in an
\* empty context when none is given
get_unchecked(p, data, variables) == GetLoop(p.segments, 1, data, variables)

\* access.rs:5-65
get(p, data, variables) ==
    IF has_variables(p) /\ ~variables.some THEN ValErr(MissingContext)
    ELSE GetLoop(p.segments, 1, data, variables)

----------------------------------------------------------------------------
(***************************************************************************)
(* write.rs.  The `&mut Value` walk is modelled by rebuilding: each step   *)
(* gives the new contents of the location it was handed.                   *)
(***************************************************************************)
IsKeyLike(seg) == seg.tag \in {"KeyString", "KeyInt", "KeyVariable"}

RECURSIVE Nulls(_)
Nulls(n) == IF n <= 0 THEN <<>> ELSE <<Entry(<<>>, Null)>> \o Nulls(n - 1)

\* while arr.len() <= idx { arr.push(Value::Null) }
Padded(entries, idx) ==
    IF Len(entries) <= idx THEN entries \o Nulls(idx + 1 - Len(entries))
    ELSE entries

\* write.rs:120-185: *data after the call; the returned reference is to the
\* entry of key in it
ensure_next_segment_exists(data, key, next_segment) ==
    IF is_object(data) THEN
        LET map == IF contains_key(data.kids, key) THEN data.kids
                   ELSE map_insert(data.kids, key, Null)
            value == map_get(map, key)
        IN  IF IsKeyLike(next_segment) THEN
                IF ~is_object(value)
                THEN Object(map_insert(map, key, Object(<<>>)))
                ELSE Object(map)
            ELSE
                IF ~is_array(value)
                THEN Object(map_insert(map, key, Array(<<>>)))
                ELSE Object(map)
    ELSE
        IF IsKeyLike(next_segment)
        THEN Object(map_insert(<<>>, key, Object(<<>>)))
        ELSE Object(map_insert(<<>>, key, Array(<<>>)))

\* ensure_array_index_exists building a new array whenever the array is too
\* short
ensure_array_index_exists_fresh(data, idx, next_segment) ==
    IF is_array(data) /\ idx < Len(data.kids) THEN data
    ELSE Array(Nulls(idx + 1))

\* write.rs:187-219: *data after the call; the returned reference is to
\* element idx of it
ensure_array_index_exists(data, idx, next_segment) ==
    IF is_array(data) THEN Array(Padded(data.kids, idx))
    ELSE Array(Nulls(idx + 1))

\* write_by_key keeping the value of a key the object already holds
write_by_key_if_absent(data, key, value) ==
    IF is_object(data) THEN
        IF contains_key(data.kids, key) THEN data
        ELSE Object(map_insert(data.kids, key, value))
    ELSE Object(map_insert(<<>>, key, value))

\* write_by_key always building a new map
write_by_key_fresh(data, key, value) == Object(map_insert(<<>>, key, value))

\* write.rs:221-243: *data after the call
write_by_key(data, key, value) ==
    IF is_object(data) THEN Object(map_insert(data.kids, key, value))
    ELSE Object(map_insert(<<>>, key, value))

\* write_by_index with arr.insert(idx, value) for arr[idx] = value
write_by_index_insert(data, idx, value) ==
    IF is_array(data)
    THEN LET arr == IF Len(data.kids) < idx
                    THEN data.kids \o Nulls(idx - Len(data.kids)) ELSE data.kids
         IN  Array(SubSeq(arr, 1, idx) \o <<Entry(<<>>, value)>>
                   \o SubSeq(arr, idx + 1, Len(arr)))
    ELSE Array(Nulls(idx) \o <<Entry(<<>>, value)>>)

\* write.rs:245-270: *data after the call
write_by_index(data, idx, value) ==
    IF is_array(data)
    THEN Array([Padded(data.kids, idx) EXCEPT ![idx + 1].node = value])
    ELSE Array(Nulls(idx) \o <<Entry(<<>>, value)>>)

\* the resolution of a segment against the bindings (write.rs:46-68, 85-105):
\* a key or an index, or the error of the `?`
Resolved(seg, variables) ==
    CASE seg.tag \in {"KeyString", "KeyInt"} ->
            [ok |-> TRUE, keylike |-> TRUE, key |-> key_str(seg), idx |-> 0,
             err |-> NoError]
      [] seg.tag = "Index" ->
            [ok |-> TRUE, keylike |-> FALSE, key |-> <<>>, idx |-> seg.num,
             err |-> NoError]
      [] seg.tag = "KeyVariable" ->
            IF seg.text \notin DOMAIN variables.map
            THEN [ok |-> FALSE, keylike |-> TRUE, key |-> <<>>, idx |-> 0,
                  err |-> MissingVariable(seg.text)]
            ELSE [ok |-> TRUE, keylike |-> TRUE,
                  key |-> variables.map[seg.text], idx |-> 0, err |-> NoError]
      [] seg.tag = "IndexVariable" ->
            IF seg.text \notin DOMAIN variables.map
            THEN [ok |-> FALSE, keylike |-> FALSE, key |-> <<>>, idx |-> 0,
                  err |-> MissingVariable(seg.text)]
            ELSE IF ~parse_usize(variables.map[seg.text]).ok
            THEN [ok |-> FALSE, keylike |-> FALSE, key |-> <<>>, idx |-> 0,
                  err |-> InvalidVariableValue(variables.map[seg.text])]
            ELSE [ok |-> TRUE, keylike |-> FALSE, key |-> <<>>,
                  idx |-> parse_usize(variables.map[seg.text]).val,
                  err |-> NoError]

\* write.rs:37-111, the loop from segment k on, `current` being the value at
\* the location reached: the new value of that location, or the error
RECURSIVE WriteLoop(_, _, _, _, _)
WriteLoop(segs, k, current, value, variables) ==
    LET r == Resolved(segs[k], variables)
    IN  IF ~r.ok THEN ValErr(r.err)
        ELSE IF k = Len(segs) THEN
            IF r.keylike THEN ValOk(write_by_key(current, r.key, value))
            ELSE ValOk(write_by_index(current, r.idx, value))
        ELSE
            LET data == IF r.keylike
                        THEN ensure_next_segment_exists(current, r.key, segs[k + 1])
                        ELSE ensure_array_index_exists(current, r.idx, segs[k + 1])
                pos == IF r.keylike THEN KeyPos(data.kids, r.key) ELSE r.idx + 1
                rest == WriteLoop(segs, k + 1, data.kids[pos].node, value,
                                  variables)
            IN  IF ~rest.ok THEN rest
                ELSE ValOk([data EXCEPT !.kids[pos].node = rest.value])

\* Option<&mut Value>
NoData == [some |-> FALSE, value |-> Null]
SomeData(v) == [some |-> TRUE, value |-> v]

\* the Result of write, with the contents of the caller's slot after the call
WriteResult(r, slot) == [ok |-> r.ok, value |-> r.value, err |-> r.err, slot |-> slot]

\* write with get's type check on the root: a root that is neither Null nor
\* the container the first segment needs is an InvalidPath error
write_checked(p, data, value, variables) ==
    LET root_value == IF data.some THEN data.value ELSE Null
    IN  IF has_variables(p) /\ ~variables.some
        THEN WriteResult(ValErr(MissingContext), data)
        ELSE IF p.segments = <<>>
        THEN WriteResult(ValOk(value), data)
        ELSE IF root_value.kind \in {"bool", "number"}
        THEN WriteResult(ValErr(InvalidPath("container")), data)
        ELSE LET r == WriteLoop(p.segments, 1, root_value, value, variables)
             IN  IF ~r.ok THEN WriteResult(r, data)
                 ELSE WriteResult(r, IF data.some THEN SomeData(r.value) ELSE data)

\* write working on the caller's tree itself, without the private copy: an
\* error after the first segment leaves the first segment's container behind
write_in_place(p, data, value, variables) ==
    LET root_value == IF data.some THEN data.value ELSE Null
    IN  IF has_variables(p) /\ ~variables.some
        THEN WriteResult(ValErr(MissingContext), data)
        ELSE IF p.segments = <<>>
        THEN WriteResult(ValOk(value), data)
        ELSE LET r == WriteLoop(p.segments, 1, root_value, value, variables)
                 r1 == Resolved(p.segments[1], variables)
             IN  IF r.ok
                 THEN WriteResult(r, IF data.some THEN SomeData(r.value) ELSE data)
                 ELSE IF r1.ok /\ data.some /\ Len(p.segments) > 1
                 THEN WriteResult(r, SomeData(
                        IF r1.keylike
                        THEN ensure_next_segment_exists(root_value, r1.key,
                                                        p.segments[2])
                        ELSE ensure_array_index_exists(root_value, r1.idx,
                                                       p.segments[2])))
                 ELSE WriteResult(r, data)

\* write.rs:5-118
write(p, data, value, variables) ==
    LET root_value == IF data.some THEN data.value ELSE Null
    IN  IF has_variables(p) /\ ~variables.some
        THEN WriteResult(ValErr(MissingContext), data)
        ELSE IF p.segments = <<>>
        THEN WriteResult(ValOk(value), data)
        ELSE LET r == WriteLoop(p.segments, 1, root_value, value, variables)
             IN  IF ~r.ok THEN WriteResult(r, data)
                 ELSE WriteResult(r, IF data.some THEN SomeData(r.value) ELSE data)

----------------------------------------------------------------------------
(***************************************************************************)
(* walk.rs.  A `&'a Value` into the walked tree is the position of the     *)
(* node: the sequence of entry numbers that leads to it from the root.     *)
(***************************************************************************)
RECURSIVE NodeAt(_, _)
NodeAt(root, ref) ==
    IF ref = <<>> THEN root ELSE NodeAt(root.kids[ref[1]].node, Tail(ref))

WalkerItem(p, ref, processed) == [path |-> p, ref |-> ref, processed |-> processed]

\* Walker::new, walk.rs:24-32
new_walker == <<WalkerItem(NewPath, <<>>, FALSE)>>

\* walk.rs:55-68 and 75-84: the items of the children of a container, in the
\* order they have on the stack after the reversed push_front calls
ChildItems(item, value) ==
    [k \in 1..Len(value.kids) |->
        WalkerItem(
            IF is_object(value)
            THEN IF parse_i64(value.kids[k].key).ok
                 THEN push_int_key(item.path, parse_i64(value.kids[k].key).val)
                 ELSE push_string_key(item.path, value.kids[k].key)
            ELSE push_index(item.path, k - 1),
            Append(item.ref, k), FALSE)]

\* the stack with the container in front of its children: it is emitted
\* before them
push_container_first(item, value, rest) ==
    <<[item EXCEPT !.processed = TRUE]>> \o ChildItems(item, value) \o rest

\* walk.rs:46-85: the stack after an unprocessed container was popped: its
\* children in front, then the container marked processed
push_children(item, value, rest) ==
    ChildItems(item, value) \o <<[item EXCEPT !.processed = TRUE]>> \o rest

NoItem == [some |-> FALSE, path |-> NewPath, ref |-> <<>>]

\* next putting the root back on the stack when it finds the stack empty
RECURSIVE walker_next_restart(_, _)
walker_next_restart(stack, root) ==
    IF stack = <<>> THEN [stack |-> new_walker, item |-> NoItem]
    ELSE LET item == Head(stack)
             value == NodeAt(root, item.ref)
         IN  IF ~item.processed /\ (is_object(value) \/ is_array(value))
             THEN walker_next_restart(push_children(item, value, Tail(stack)), root)
             ELSE [stack |-> Tail(stack),
                   item |-> [some |-> TRUE, path |-> item.path, ref |-> item.ref]]

\* Walker::next, walk.rs:38-100: the stack after the call and the item
\* returned
RECURSIVE walker_next(_, _)
walker_next(stack, root) ==
    IF stack = <<>> THEN [stack |-> stack, item |-> NoItem]
    ELSE LET item == Head(stack)
             value == NodeAt(root, item.ref)
         IN  IF ~item.processed /\ (is_object(value) \/ is_array(value))
             THEN walker_next(push_children(item, value, Tail(stack)), root)
             ELSE [stack |-> Tail(stack),
                   item |-> [some |-> TRUE, path |-> item.path, ref |-> item.ref]]

----------------------------------------------------------------------------
(***************************************************************************)
(* iter.rs.  A bound value is the serde_json Value the iterator stores:    *)
(* Value::String(key) or Value::Number(index).  The `visited` set holds    *)
(* the Debug text of a binding map; the text names every name and value of *)
(* the map, so the set is modelled as a set of maps.                       *)
(***************************************************************************)
BoundKey(key) == [kind |-> "string", text |-> key, num |-> 0]
BoundIndex(idx) == [kind |-> "number", text |-> <<>>, num |-> idx]

VariableIterState(ref, idx, values) ==
    [ref |-> ref, current_segment_idx |-> idx, variable_values |-> values]

\* VariableIterator::new, iter.rs:22-37
new_iterator == <<VariableIterState(<<>>, 0, <<>>)>>

\* the arm below binding the variable to the element's number counted from
\* one
index_variable_from_one(state, seg, value) ==
    IF is_array(value)
    THEN [k \in 1..Len(value.kids) |->
            VariableIterState(Append(state.ref, k),
                state.current_segment_idx + 1,
                (seg.text :> BoundIndex(k)) @@ state.variable_values)]
    ELSE <<>>

\* the arm below without the insert into variable_values
index_variable_states_unbound(state, seg, value) ==
    IF is_array(value)
    THEN [k \in 1..Len(value.kids) |->
            VariableIterState(Append(state.ref, k),
                state.current_segment_idx + 1, state.variable_values)]
    ELSE <<>>

\* iter.rs:115-133: one state per element of the array
index_variable_states(state, seg, value) ==
    IF is_array(value)
    THEN [k \in 1..Len(value.kids) |->
            VariableIterState(Append(state.ref, k),
                state.current_segment_idx + 1,
                (seg.text :> BoundIndex(k - 1)) @@ state.variable_values)]
    ELSE <<>>

\* the arm below binding the variable to the last key of the object for
\* every entry
key_variable_states_last_key(state, seg, value) ==
    IF is_object(value)
    THEN [k \in 1..Len(value.kids) |->
            VariableIterState(Append(state.ref, k),
                state.current_segment_idx + 1,
                (seg.text :> BoundKey(value.kids[Len(value.kids)].key))
                    @@ state.variable_values)]
    ELSE <<>>

\* iter.rs:98-114: one state per entry of the object
key_variable_states(state, seg, value) ==
    IF is_object(value)
    THEN [k \in 1..Len(value.kids) |->
            VariableIterState(Append(state.ref, k),
                state.current_segment_idx + 1,
                (seg.text :> BoundKey(value.kids[k].key))
                    @@ state.variable_values)]
    ELSE <<>>

\* iter.rs:60-134: the states pushed for one popped state
Successors(state, seg, value) ==
    CASE seg.tag \in {"KeyString", "KeyInt"} ->
            IF is_object(value) /\ contains_key(value.kids, key_str(seg))
            THEN <<VariableIterState(
                     Append(state.ref, KeyPos(value.kids, key_str(seg))),
                     state.current_segment_idx + 1, state.variable_values)>>
            ELSE <<>>
      [] seg.tag = "Index" ->
            IF is_array(value) /\ seg.num < Len(value.kids)
            THEN <<VariableIterState(Append(state.ref, seg.num + 1),
                     state.current_segment_idx + 1, state.variable_values)>>
            ELSE <<>>
      [] seg.tag = "KeyVariable" -> key_variable_states(state, seg, value)
      [] seg.tag = "IndexVariable" -> index_variable_states(state, seg, value)

NoResult == [some |-> FALSE, ref |-> <<>>, bindings |-> <<>>]

\* next without the visited set, leaving a completed state at the front of
\* the queue
RECURSIVE iterator_next_keep_front(_, _, _, _)
iterator_next_keep_front(stack, visited, p, root) ==
    IF stack = <<>>
    THEN [stack |-> stack, visited |-> visited, result |-> NoResult]
    ELSE LET state == Head(stack)
         IN  IF state.current_segment_idx >= Len(p.segments) THEN
                 [stack |-> stack, visited |-> visited,
                  result |-> [some |-> TRUE, ref |-> state.ref,
                              bindings |-> state.variable_values]]
             ELSE iterator_next_keep_front(
                     Tail(stack)
                       \o Successors(state,
                                     p.segments[state.current_segment_idx + 1],
                                     NodeAt(root, state.ref)),
                     visited, p, root)

\* next with pop_back for pop_front
RECURSIVE iterator_next_pop_back(_, _, _, _)
iterator_next_pop_back(stack, visited, p, root) ==
    IF stack = <<>>
    THEN [stack |-> stack, visited |-> visited, result |-> NoResult]
    ELSE LET state == stack[Len(stack)]
             rest == SubSeq(stack, 1, Len(stack) - 1)
         IN  IF state.current_segment_idx >= Len(p.segments) THEN
                 IF state.variable_values \in visited
                 THEN iterator_next_pop_back(rest, visited, p, root)
                 ELSE [stack |-> rest,
                       visited |-> visited \cup {state.variable_values},
                       result |-> [some |-> TRUE, ref |-> state.ref,
                                   bindings |-> state.variable_values]]
             ELSE iterator_next_pop_back(
                     rest \o Successors(state,
                                        p.segments[state.current_segment_idx + 1],
                                        NodeAt(root, state.ref)),
                     visited, p, root)

\* VariableIterator::next, iter.rs:43-138: the queue and the visited set
\* after the call, and the result returned
RECURSIVE iterator_next(_, _, _, _)
iterator_next(stack, visited, p, root) ==
    IF stack = <<>>
    THEN [stack |-> stack, visited |-> visited, result |-> NoResult]
    ELSE LET state == Head(stack)
         IN  IF state.current_segment_idx >= Len(p.segments) THEN
                 IF state.variable_values \in visited
                 THEN iterator_next(Tail(stack), visited, p, root)
                 ELSE [stack |-> Tail(stack),
                       visited |-> visited \cup {state.variable_values},
                       result |-> [some |-> TRUE, ref |-> state.ref,
                                   bindings |-> state.variable_values]]
             ELSE iterator_next(
                     Tail(stack)
                       \o Successors(state,
                                     p.segments[state.current_segment_idx + 1],
                                     NodeAt(root, state.ref)),
                     visited, p, root)

----------------------------------------------------------------------------
(***************************************************************************)
(* The path specifications: the builder, parse, and format followed by     *)
(* parse.                                                                  *)
(***************************************************************************)
Alphabet == {"a", "1", "#", ".", "[", "]", "\\"}

\* texts with the `$` prefix, signs, leading zeros and longer shapes
ExtraTexts ==
    { <<"$">>, <<"$", "a">>, <<"$", "$">>, <<"-", "1">>, <<"+", "1">>,
      <<"0", "1">>, <<"-">>, <<"[", "+", "1", "]">>, <<"[", "-", "1", "]">>,
      <<"$", "a", "[", "0", "]", ".", "b">>,
      <<"$", "a", ".", "\\", "#", "a", ".", "1">>,
      <<"$", "#", "x", ".", "a", ".", "#", "x">>,
      <<"$", "a", "[", "#", "x", "]", ".", "#", "y">>,
      <<"[", "\\", "#", "a", "]">>, <<"$", "a", "[", "\\", "1", "]">>,
      <<"$", "#", "x", "[", "#", "x", "]">>,
      <<"#", "a", ".", "#", "a", "[">>, <<"#", "a", "[", "#", "a">> }

Texts == UNION {[1..n -> Alphabet] : n \in 0..MaxTextLen} \cup ExtraTexts

StringKeyArgs == { <<"a">>, <<"-", "1">>, <<"1", "2">>, <<"0">>, <<>>, <<"a", ".", "#">> }
IntKeyArgs == {-1, 0, 12}
IndexArgs == {10}
VarNameArgs == { <<"x">>, <<>>, <<"a", ".", "b">> }

NoRt == [done |-> FALSE, of |-> NewPath, text |-> <<>>, back |-> PathOk(NewPath)]
Op(name, text, num) == [name |-> name, text |-> text, num |-> num]

\* a path exists: the last parse, if any, returned one
HavePath == ~(lastop.name = "parse" /\ outcome.kind # "Ok")
CanPush == HavePath /\ Len(path.segments) < MaxSegs

NoCall == [op |-> "none"]
NoWalker == [state |-> "none"]
NoIter == [state |-> "none"]

InitPath ==
    /\ path = NewPath
    /\ outcome = NoError
    /\ lastop = Op("new", <<>>, 0)
    /\ events = <<>>
    /\ rt = NoRt
    /\ tree = Null
    /\ call = NoCall
    /\ walker = NoWalker
    /\ iter = NoIter

Parse(t) ==
    /\ lastop.name = "new"
    /\ LET st == ParseScan(t)
       IN  /\ path' = IF st.err.kind = "Ok" THEN st.path ELSE NewPath
           /\ outcome' = st.err
           /\ events' = st.log
    /\ lastop' = Op("parse", t, 0)
    /\ rt' = NoRt
    /\ UNCHANGED <<tree, call, walker, iter>>

PushStringKey(key) ==
    /\ CanPush
    /\ path' = push_string_key(path, key)
    /\ outcome' = NoError
    /\ lastop' = Op("push_string_key", key, 0)
    /\ rt' = NoRt
    /\ events' = <<>>
    /\ UNCHANGED <<tree, call, walker, iter>>

PushIntKey(key) ==
    /\ CanPush
    /\ path' = push_int_key(path, key)
    /\ outcome' = NoError
    /\ lastop' = Op("push_int_key", <<>>, key)
    /\ rt' = NoRt
    /\ events' = <<>>
    /\ UNCHANGED <<tree, call, walker, iter>>

PushIndex(index) ==
    /\ CanPush
    /\ path' = push_index(path, index)
    /\ outcome' = NoError
    /\ lastop' = Op("push_index", <<>>, index)
    /\ rt' = NoRt
    /\ events' = <<>>
    /\ UNCHANGED <<tree, call, walker, iter>>

PushKeyVariable(name) ==
    /\ CanPush
    /\ path' = push_key_variable(path, name).path
    /\ outcome' = push_key_variable(path, name).err
    /\ lastop' = Op("push_key_variable", name, 0)
    /\ rt' = NoRt
    /\ events' = <<>>
    /\ UNCHANGED <<tree, call, walker, iter>>

PushIndexVariable(name) ==
    /\ CanPush
    /\ path' = push_index_variable(path, name).path
    /\ outcome' = push_index_variable(path, name).err
    /\ lastop' = Op("push_index_variable", name, 0)
    /\ rt' = NoRt
    /\ events' = <<>>
    /\ UNCHANGED <<tree, call, walker, iter>>

\* format.rs:157-179: format the path and parse the text back
RoundTrip ==
    /\ HavePath
    /\ ~rt.done
    /\ rt' = [done |-> TRUE, of |-> path, text |-> to_string(path),
              back |-> parse(to_string(path))]
    /\ UNCHANGED <<path, outcome, lastop, events, tree, call, walker, iter>>

NextPath ==
    \/ \E t \in ExtraTexts : Parse(t)
    \/ \E key \in StringKeyArgs : PushStringKey(key)
    \/ \E key \in IntKeyArgs : PushIntKey(key)
    \/ \E index \in IndexArgs : PushIndex(index)
    \/ \E name \in VarNameArgs : PushKeyVariable(name)
    \/ \E name \in VarNameArgs : PushIndexVariable(name)
    \/ RoundTrip

SpecPath == InitPath /\ [][NextPath]_vars

\* parse on every text of the bounded set, and the round trip of the result
NextParse ==
    \/ \E t \in Texts : Parse(t)
    \/ RoundTrip

SpecParse == InitPath /\ [][NextParse]_vars

----------------------------------------------------------------------------
(***************************************************************************)
(* The tree specification: one get or write call on a tree, and a second   *)
(* write of the same value at the same path on the tree the first returned.*)
(***************************************************************************)
\* the entries of an object with the given (key, node) pairs
RECURSIVE MakeEntries(_)
MakeEntries(pairs) ==
    IF pairs = <<>> THEN <<>>
    ELSE map_insert(MakeEntries(SubSeq(pairs, 1, Len(pairs) - 1)),
                    pairs[Len(pairs)][1], pairs[Len(pairs)][2])

Obj(pairs) == Object(MakeEntries(pairs))
Arr(nodes) == Array([k \in 1..Len(nodes) |-> Entry(<<>>, nodes[k])])

Shallow ==
    { Arr(<<>>), Arr(<<Number(1)>>), Arr(<<Number(1), Null>>),
      Obj(<<>>), Obj(<< <<<<"a">>, Number(1)>> >>),
      Obj(<< <<<<"1">>, Number(1)>> >>),
      Obj(<< <<<<"a">>, Null>>, <<<<"1">>, Number(2)>> >>) }

Nested ==
    UNION { { Obj(<< <<<<"a">>, x>> >>), Arr(<<Null, x>>) } : x \in Shallow }

Trees == {Null, Number(1)} \cup Shallow \cup Nested

Values == { Number(7), Obj(<< <<<<"a">>, Number(1)>> >>) }

SegChoices ==
    { KeyString(<<"a">>), KeyInt(1), Index(0), Index(2),
      KeyVariable(<<"x">>), IndexVariable(<<"i">>) }

VariableNames(segs) ==
    {segs[k].text : k \in {j \in 1..Len(segs) : IsVariableSegment(segs[j])}}

\* the path the builder makes of a sequence of segments
PathOf(segs) == [segments |-> segs, variable_names |-> VariableNames(segs)]

\* the builder refuses a second segment with a name already used
Buildable(segs) ==
    \A j, k \in 1..Len(segs) :
        (j # k /\ IsVariableSegment(segs[j]) /\ IsVariableSegment(segs[k]))
            => segs[j].text # segs[k].text

TreePaths ==
    { PathOf(segs) : segs \in
        { q \in UNION {[1..n -> SegChoices] : n \in 0..MaxPathLen} : Buildable(q) } }

Bind(x, i) == SomeVars((<<"x">> :> x) @@ (<<"i">> :> i))

BindingChoices ==
    { NoVars, Bind(<<"a">>, <<"2">>), Bind(<<"1">>, <<"a">>),
      SomeVars(<<"x">> :> <<"a">>) }

InitTree ==
    /\ path = NewPath
    /\ outcome = NoError
    /\ lastop = Op("new", <<>>, 0)
    /\ events = <<>>
    /\ rt = NoRt
    /\ tree \in Trees
    /\ call = NoCall
    /\ walker = NoWalker
    /\ iter = NoIter

CallResult(r) == [ok |-> r.ok, value |-> r.value, err |-> r.err]

\* get(path, &tree, vars)
Get(p, variables) ==
    /\ call.op = "none"
    /\ call' = [op |-> "get", path |-> p, slot |-> FALSE, value |-> Null,
                vars |-> variables, before |-> tree, first |-> ValOk(Null),
                result |-> CallResult(get(p, tree, variables))]
    /\ UNCHANGED <<tree, path, outcome, lastop, events, rt, walker, iter>>

\* write(path, Some(&mut tree), value, vars), or write(path, None, ...) when
\* the caller passes no slot
Write(p, value, variables, slot) ==
    /\ call.op = "none"
    /\ LET r == write(p, IF slot THEN SomeData(tree) ELSE NoData, value,
                      variables)
       IN  /\ tree' = IF slot THEN r.slot.value ELSE tree
           /\ call' = [op |-> "write", path |-> p, slot |-> slot,
                       value |-> value, vars |-> variables, before |-> tree,
                       first |-> ValOk(Null), result |-> CallResult(r)]
    /\ UNCHANGED <<path, outcome, lastop, events, rt, walker, iter>>

\* the same write again, on the tree that the first write returned
WriteAgain ==
    /\ call.op = "write"
    /\ call.result.ok
    /\ LET r == write(call.path, SomeData(call.result.value), call.value,
                      call.vars)
       IN  /\ tree' = r.slot.value
           /\ call' = [call EXCEPT !.op = "write_again", !.slot = TRUE,
                                   !.first = call.result,
                                   !.result = CallResult(r)]
    /\ UNCHANGED <<path, outcome, lastop, events, rt, walker, iter>>

NextTree ==
    \/ \E p \in TreePaths, b \in BindingChoices : Get(p, b)
    \/ \E p \in TreePaths, v \in Values, b \in BindingChoices, slot \in BOOLEAN :
          Write(p, v, b, slot)
    \/ WriteAgain

SpecTree == InitTree /\ [][NextTree]_vars

----------------------------------------------------------------------------
(***************************************************************************)
(* The walker specification: a walker over a tree, pulled item by item.    *)
(***************************************************************************)
Grow(x) ==
    { Obj(<< <<<<"a">>, x>> >>),
      Obj(<< <<<<"a">>, x>>, <<<<"1">>, Null>> >>),
      Arr(<<Null, x>>), Arr(<<x, x>>) }

RECURSIVE WalkLevel(_)
WalkLevel(d) ==
    IF d = 0 THEN {Null, Number(1), Arr(<<>>), Obj(<<>>)}
    ELSE WalkLevel(d - 1) \cup UNION {Grow(x) : x \in WalkLevel(d - 1)}

\* objects whose keys parse as i64 without being the decimal text of one
SignedKeyTrees ==
    { Obj(<< <<<<"0", "1">>, Number(1)>> >>),
      Obj(<< <<<<"+", "1">>, Number(1)>>, <<<<"1">>, Null>> >>),
      Obj(<< <<<<"-", "1">>, Arr(<<Number(1)>>)>> >>) }

WalkTrees == WalkLevel(MaxWalkDepth) \cup SignedKeyTrees

InitWalk ==
    /\ path = NewPath
    /\ outcome = NoError
    /\ lastop = Op("new", <<>>, 0)
    /\ events = <<>>
    /\ rt = NoRt
    /\ tree \in WalkTrees
    /\ call = NoCall
    /\ walker = NoWalker
    /\ iter = NoIter

\* Structpath::walk(&tree)
NewWalker ==
    /\ walker.state = "none"
    /\ walker' = [state |-> "walking", stack |-> new_walker, emitted |-> <<>>,
                  done |-> FALSE]
    /\ UNCHANGED <<tree, call, iter, path, outcome, lastop, events, rt>>

\* one call of next: Some(item) is appended to what was emitted, None is
\* recorded in done
WalkerNext ==
    /\ walker.state = "walking"
    /\ ~walker.done
    /\ LET r == walker_next(walker.stack, tree)
       IN  walker' = [walker EXCEPT
                        !.stack = r.stack,
                        !.emitted = IF r.item.some
                                    THEN Append(@, [path |-> r.item.path,
                                                    ref |-> r.item.ref])
                                    ELSE @,
                        !.done = ~r.item.some]
    /\ UNCHANGED <<tree, call, iter, path, outcome, lastop, events, rt>>

NextWalk == NewWalker \/ WalkerNext

SpecWalk == InitWalk /\ [][NextWalk]_vars

----------------------------------------------------------------------------
(***************************************************************************)
(* The iterator specification: a variable iterator over a path and a tree, *)
(* pulled result by result.                                                *)
(***************************************************************************)
NameChars == <<"a", "b", "c", "d", "e">>

\* {"t": {team: {"m": {member: number}}}} with the given numbers of teams
\* and of members of each team
Members(n) == Obj([k \in 1..n |-> <<<<NameChars[k]>>, Number(k)>>])
TeamsTree(teams, members) ==
    Obj(<< << <<"t">>,
              Obj([k \in 1..teams |->
                     <<<<NameChars[k]>>,
                       Obj(<< << <<"m">>, Members(members) >> >>)>>]) >> >>)

\* $t.#x.m.#y, the shape of $teams.#teamId.members.#userId
TeamsPath ==
    PathOf(<<KeyString(<<"t">>), KeyVariable(<<"x">>), KeyString(<<"m">>),
             KeyVariable(<<"y">>)>>)

TeamsTrees == {TeamsTree(t, m) : t \in 0..MaxTeams, m \in 0..MaxTeams}

IterTrees == Trees \cup TeamsTrees
IterPaths == TreePaths \cup {TeamsPath}

InitIter ==
    /\ path = NewPath
    /\ outcome = NoError
    /\ lastop = Op("new", <<>>, 0)
    /\ events = <<>>
    /\ rt = NoRt
    /\ tree \in IterTrees
    /\ call = NoCall
    /\ walker = NoWalker
    /\ iter = NoIter

\* iter_variables(&path, &tree)
NewIterator(p) ==
    /\ iter.state = "none"
    /\ iter' = [state |-> "iterating", path |-> p, stack |-> new_iterator,
                visited |-> {}, results |-> <<>>, done |-> FALSE]
    /\ UNCHANGED <<tree, call, walker, path, outcome, lastop, events, rt>>

\* one call of next
IteratorNext ==
    /\ iter.state = "iterating"
    /\ ~iter.done
    /\ LET r == iterator_next(iter.stack, iter.visited, iter.path, tree)
       IN  iter' = [iter EXCEPT
                      !.stack = r.stack,
                      !.visited = r.visited,
                      !.results = IF r.result.some
                                  THEN Append(@, [ref |-> r.result.ref,
                                                  bindings |-> r.result.bindings])
                                  ELSE @,
                      !.done = ~r.result.some]
    /\ UNCHANGED <<tree, call, walker, path, outcome, lastop, events, rt>>

NextIter == (\E p \in IterPaths : NewIterator(p)) \/ IteratorNext

SpecIter == InitIter /\ [][NextIter]_vars

----------------------------------------------------------------------------
(***************************************************************************)
(* The enumerator specification: one walker or one variable iterator over  *)
(* a tree of Trees, whose next is called again and again, also after it    *)
(* has returned None.  The caller that keeps calling is the fairness of    *)
(* the two next actions; a caller that stops is a behaviour that stutters. *)
(***************************************************************************)
InitEnum ==
    /\ path = NewPath
    /\ outcome = NoError
    /\ lastop = Op("new", <<>>, 0)
    /\ events = <<>>
    /\ rt = NoRt
    /\ tree \in Trees
    /\ call = NoCall
    /\ walker = NoWalker
    /\ iter = NoIter

\* a call of the walker's next after it has returned None
WalkerNextAfterNone ==
    /\ walker.state = "walking"
    /\ walker.done
    /\ LET r == walker_next(walker.stack, tree)
       IN  walker' = [walker EXCEPT
                        !.stack = r.stack,
                        !.emitted = IF r.item.some
                                    THEN Append(@, [path |-> r.item.path,
                                                    ref |-> r.item.ref])
                                    ELSE @,
                        !.done = ~r.item.some]
    /\ UNCHANGED <<tree, call, iter, path, outcome, lastop, events, rt>>

\* a call of the iterator's next after it has returned None
IteratorNextAfterNone ==
    /\ iter.state = "iterating"
    /\ iter.done
    /\ LET r == iterator_next(iter.stack, iter.visited, iter.path, tree)
       IN  iter' = [iter EXCEPT
                      !.stack = r.stack,
                      !.visited = r.visited,
                      !.results = IF r.result.some
                                  THEN Append(@, [ref |-> r.result.ref,
                                                  bindings |-> r.result.bindings])
                                  ELSE @,
                      !.done = ~r.result.some]
    /\ UNCHANGED <<tree, call, walker, path, outcome, lastop, events, rt>>

NextEnum ==
    \/ iter.state = "none" /\ NewWalker
    \/ WalkerNext
    \/ WalkerNextAfterNone
    \/ walker.state = "none" /\ \E p \in IterPaths : NewIterator(p)
    \/ IteratorNext
    \/ IteratorNextAfterNone

SpecEnum ==
    /\ InitEnum
    /\ [][NextEnum]_vars
    /\ WF_vars(WalkerNext)
    /\ WF_vars(IteratorNext)

----------------------------------------------------------------------------
(***************************************************************************)
(* Properties of parse and format.                                         *)
(***************************************************************************)
\* the text a raw segment denotes: every backslash is dropped and the
\* character after it is kept
RECURSIVE Unescape(_)
Unescape(raw) ==
    IF raw = <<>> THEN <<>>
    ELSE IF raw[1] = "\\" THEN
        IF Len(raw) = 1 THEN <<>>
        ELSE <<raw[2]>> \o Unescape(SubSeq(raw, 3, Len(raw)))
    ELSE <<raw[1]>> \o Unescape(Tail(raw))

\* the raw segment holds an escaped character
HasEscape(raw) == \E k \in 1..(Len(raw) - 1) : raw[k] = "\\"

\* the raw segment begins with an unescaped `#` and has a further character
IsVariableRaw(raw) == raw # <<>> /\ raw[1] = "#" /\ Len(Unescape(raw)) > 1

ParsedEvents == {events[k] : k \in 1..Len(events)}

\* C1: round-trip law: for the path of every reachable builder or parse
\* state, parse(format(p)) succeeds and equals p.
RoundTripLaw == rt.done => rt.back = PathOk(rt.of)

\* C9: in parse an escaped character is ordinary text of its segment in
\* every context: the segment text is the raw text without its escaping
\* backslashes, a variable segment comes only from an unescaped leading `#`,
\* and an integer key only from a segment without escaped characters.
EscapedIsOrdinaryText ==
    \A e \in ParsedEvents :
        /\ e.segment = Unescape(e.raw)
        /\ (e.ok /\ IsVariableSegment(e.pushed)) => e.raw[1] = "#"
        /\ (e.ok /\ e.pushed.tag = "KeyInt") => ~HasEscape(e.raw)

\* C10: a plain, non-variable segment becomes Key(Int) exactly when it has
\* no escaped character and its full text parses as an i64; otherwise it
\* becomes Key(String) of the segment text.
PlainSegmentClassification ==
    \A e \in ParsedEvents :
        (~e.bracket /\ ~IsVariableRaw(e.raw)) =>
            /\ e.ok
            /\ e.pushed =
                 IF ~HasEscape(e.raw) /\ parse_i64(Unescape(e.raw)).ok
                 THEN KeyInt(parse_i64(Unescape(e.raw)).val)
                 ELSE KeyString(Unescape(e.raw))

\* a parse that made an all-digit segment with an escaped digit a string key
\* and an unescaped all-digit segment an integer key
EscapedDigitsWitness ==
    /\ \E e \in ParsedEvents :
          ~e.bracket /\ HasEscape(e.raw) /\ AllDigits(e.segment)
          /\ e.pushed.tag = "KeyString"
    /\ \E e \in ParsedEvents :
          ~e.bracket /\ ~HasEscape(e.raw) /\ e.pushed.tag = "KeyInt"

\* the string key holds the decimal text of an i64
IsDecimalText(s) ==
    parse_i64(s).ok /\ int_to_string(parse_i64(s).val) = s

\* C11: disambiguation law: the one-segment path Key(Int(i)) formats as `$`
\* and the decimal digits of i, the path Key(String(s)) with s the decimal
\* text of an integer formats as `$`, a backslash and s, the two texts
\* differ, and each parses back to the path it was formatted from.
DisambiguationLaw ==
    (rt.done /\ Len(rt.of.segments) = 1) =>
        LET seg == rt.of.segments[1]
        IN  /\ seg.tag = "KeyInt" =>
                 /\ rt.text = <<"$">> \o int_to_string(seg.num)
                 /\ rt.back = PathOk(rt.of)
            /\ (seg.tag = "KeyString" /\ IsDecimalText(seg.text)) =>
                 /\ rt.text = <<"$", "\\">> \o seg.text
                 /\ rt.text # <<"$">> \o seg.text
                 /\ rt.back = PathOk(rt.of)

\* the round trip of the string key "-1" has been made
NegativeTextKeyWitness ==
    rt.done /\ rt.of.segments = <<KeyString(<<"-", "1">>)>>

\* every special character behind a backslash, the other characters as
\* they are
RECURSIVE Backslashed(_)
Backslashed(s) ==
    IF s = <<>> THEN <<>>
    ELSE (IF s[1] \in {".", "[", "]", "\\", "#"}
          THEN <<"\\", s[1]>> ELSE <<s[1]>>) \o Backslashed(Tail(s))

HasSpecial(s) == \E k \in 1..Len(s) : s[k] \in {".", "[", "]", "\\", "#"}

\* C12: escaping law: a one-segment path whose string key holds one or more
\* of . [ ] \ # formats as `$` and the key with each of those characters
\* behind a backslash, and that text parses back to the same path.
EscapingLaw ==
    (rt.done /\ Len(rt.of.segments) = 1
       /\ rt.of.segments[1].tag = "KeyString"
       /\ HasSpecial(rt.of.segments[1].text)) =>
        /\ rt.text = <<"$">> \o Backslashed(rt.of.segments[1].text)
        /\ rt.back = PathOk(rt.of)

\* the round trip of a key that holds `#` and a further special character
EscapedHashKeyWitness ==
    /\ rt.done /\ Len(rt.of.segments) = 1
    /\ rt.of.segments[1].tag = "KeyString"
    /\ \E j, k \in 1..Len(rt.of.segments[1].text) :
          /\ rt.of.segments[1].text[j] = "#"
          /\ rt.of.segments[1].text[k] \in {".", "[", "]", "\\"}

\* the text of one segment on its own
Rendering(seg) == format_segment([text |-> <<>>, first |-> TRUE], seg).text

\* `$`, then the segments in order, every key and key variable after the
\* first segment behind a `.`
RECURSIVE DottedText(_, _)
DottedText(segs, k) ==
    IF k > Len(segs) THEN <<>>
    ELSE (IF k > 1 /\ segs[k].tag \in {"KeyString", "KeyInt", "KeyVariable"}
          THEN <<".">> ELSE <<>>)
         \o Rendering(segs[k]) \o DottedText(segs, k + 1)

\* C13: format emits `$` and the segments in order; every Key and
\* KeyVariable segment after the first segment of the path is preceded by
\* `.`, also when only Index and IndexVariable segments come before it;
\* Index and IndexVariable segments are `[...]` with no `.` before them.
FormatJoinsWithDots ==
    rt.done => rt.text = <<"$">> \o DottedText(rt.of.segments, 1)

VariablePositions(segs) == {k \in 1..Len(segs) : IsVariableSegment(segs[k])}

\* no name in two variable segments, and the used-name set is the set of
\* the names of the variable segments
UniqueVariables(p) ==
    /\ \A j, k \in VariablePositions(p.segments) :
          p.segments[j].text = p.segments[k].text => j = k
    /\ p.variable_names =
          {p.segments[k].text : k \in VariablePositions(p.segments)}

\* a builder call that appends a variable segment has just been made
IsVariablePush ==
    /\ lastop'.name \in {"push_key_variable", "push_index_variable"}
    /\ ~rt'.done
    /\ <<path, outcome, lastop, events, rt>> # <<path', outcome', lastop', events', rt'>>

\* the names of the variable segments parse had pushed before event k
NamesBefore(k) ==
    {events[j].pushed.text :
        j \in {i \in 1..(k - 1) : IsVariableSegment(events[i].pushed)}}

\* event k is a variable segment in the text: an unescaped `#` and a name;
\* a bracket that the end of the text leaves unclosed is none (its text
\* is flushed as a key before the unclosed bracket is reported)
IsVariableEvent(k) ==
    /\ events[k].raw # <<>> /\ events[k].raw[1] = "#"
    /\ Len(events[k].segment) > 1
    /\ (events[k].bracket /\ events[k].ok) => IsVariableSegment(events[k].pushed)

\* C14: variable uniqueness: in every path the builder or parse produced no
\* name occurs in two variable segments and the used-name set is the set of
\* those names; a push of a variable whose name is used returns
\* DuplicateVariable at that call and a push of a new name appends it; a
\* variable segment in a parsed text whose name is used ends the parse
\* with DuplicateVariable.
VariableUniqueness ==
    /\ [](UniqueVariables(path))
    /\ [](\A k \in 1..Len(events) :
            (IsVariableEvent(k)
               /\ Tail(events[k].segment) \in NamesBefore(k)) =>
                /\ ~events[k].ok /\ k = Len(events)
                /\ outcome = DuplicateVariable(Tail(events[k].segment)))
    /\ [][IsVariablePush =>
            IF lastop'.text \in path.variable_names
            THEN outcome' = DuplicateVariable(lastop'.text) /\ path' = path
            ELSE /\ outcome' = NoError
                 /\ Len(path'.segments) = Len(path.segments) + 1
                 /\ path'.segments[Len(path'.segments)].text = lastop'.text]_vars

\* an index variable was refused because a key variable holds its name
DuplicateAcrossKindsWitness ==
    /\ lastop.name = "push_index_variable"
    /\ outcome.kind = "DuplicateVariable"
    /\ \E k \in 1..Len(path.segments) :
          path.segments[k] = KeyVariable(lastop.text)

\* the text, read from character k on, ends inside a bracket that an
\* unescaped `[` opened
RECURSIVE OpenAtEnd(_, _, _, _)
OpenAtEnd(chars, k, open, escaped) ==
    IF k > Len(chars) THEN open
    ELSE IF escaped THEN OpenAtEnd(chars, k + 1, open, FALSE)
    ELSE IF chars[k] = "\\" THEN OpenAtEnd(chars, k + 1, open, TRUE)
    ELSE IF chars[k] = "[" /\ ~open THEN OpenAtEnd(chars, k + 1, TRUE, FALSE)
    ELSE IF chars[k] = "]" /\ open THEN OpenAtEnd(chars, k + 1, FALSE, FALSE)
    ELSE OpenAtEnd(chars, k + 1, open, FALSE)

\* the last parse was of a text that ends in an unclosed bracket
EndsUnclosed ==
    /\ lastop.name = "parse"
    /\ OpenAtEnd(IF lastop.text # <<>> /\ lastop.text[1] = "$"
                 THEN Tail(lastop.text) ELSE lastop.text, 1, FALSE, FALSE)

\* the parse was ended by a variable segment whose name was already used
EndedByDuplicate ==
    /\ events # <<>>
    /\ ~events[Len(events)].ok
    /\ IsVariableEvent(Len(events))
    /\ Tail(events[Len(events)].segment) \in NamesBefore(Len(events))

\* C18 as stated: every text that ends while a bracket opened by an
\* unescaped `[` is unclosed makes parse return ParseError, never a path
\* and never another kind of error.
UnclosedBracketIsParseError ==
    EndsUnclosed => outcome.kind = "ParseError"

\* C18, amended: every text that ends while a bracket opened by an unescaped
\* `[` is unclosed makes parse fail, whatever follows the `[`: with
\* DuplicateVariable when a variable segment completed earlier in the text
\* repeats a name, and with ParseError in every other case.
UnclosedBracketFails ==
    EndsUnclosed =>
        IF EndedByDuplicate
        THEN outcome = DuplicateVariable(Tail(events[Len(events)].segment))
        ELSE outcome.kind = "ParseError"

\* a text that ends inside a bracket with characters after the `[`
UnclosedBracketWitness ==
    /\ EndsUnclosed
    /\ outcome = ParseError("Unclosed bracket", <<>>)
    /\ events # <<>>
    /\ events[Len(events)].bracket
    /\ events[Len(events)].ok

----------------------------------------------------------------------------
(***************************************************************************)
(* Properties of get and write.                                            *)
(***************************************************************************)
CallSegs == call.path.segments
LastSeg == CallSegs[Len(CallSegs)]

\* the value get reaches before the last segment of the call's path
BeforeLast ==
    get(PathOf(SubSeq(CallSegs, 1, Len(CallSegs) - 1)), call.before, call.vars)

\* the last segment names an object key: a literal key, or a key variable
\* that the bindings resolve
NamesKey(seg) ==
    \/ seg.tag \in {"KeyString", "KeyInt"}
    \/ seg.tag = "KeyVariable" /\ seg.text \in DOMAIN call.vars.map

NamedKey(seg) ==
    CASE seg.tag = "KeyString" -> seg.text
      [] seg.tag = "KeyInt" -> int_to_string(seg.num)
      [] seg.tag = "KeyVariable" -> call.vars.map[seg.text]

\* the last segment names an array index: a literal index, or an index
\* variable bound to the text of an unsigned integer
NamesIndex(seg) ==
    \/ seg.tag = "Index"
    \/ /\ seg.tag = "IndexVariable"
       /\ seg.text \in DOMAIN call.vars.map
       /\ parse_usize(call.vars.map[seg.text]).ok

NamedIndex(seg) ==
    IF seg.tag = "Index" THEN seg.num
    ELSE parse_usize(call.vars.map[seg.text]).val

\* C2: after a successful write with a tree slot, the slot holds the
\* returned tree, for every path, the path with zero segments included.
SlotHoldsReturnedTree ==
    (call.op = "write" /\ call.slot /\ call.result.ok)
        => tree = call.result.value

\* C5: the error taxonomy of get at the segment it reaches: with v the value
\* reached before the last segment, a key segment gives InvalidPath when v
\* is no object, NotFound when v lacks the key, and the entry's value
\* otherwise; an index segment gives InvalidPath when v is no array,
\* IndexOutOfBounds when the index is not below the length, and the element
\* otherwise.
GetErrorTaxonomy ==
    (/\ call.op = "get"
     /\ CallSegs # <<>>
     /\ (call.vars.some \/ ~has_variables(call.path))
     /\ BeforeLast.ok)
    => LET v == BeforeLast.value
           r == call.result
       IN  /\ NamesKey(LastSeg) =>
                IF v.kind # "object"
                THEN ~r.ok /\ r.err = InvalidPath("object")
                ELSE IF \A k \in 1..Len(v.kids) : v.kids[k].key # NamedKey(LastSeg)
                THEN ~r.ok /\ r.err = NotFound
                ELSE /\ r.ok
                     /\ \E k \in 1..Len(v.kids) :
                           /\ v.kids[k].key = NamedKey(LastSeg)
                           /\ r.value = v.kids[k].node
           /\ NamesIndex(LastSeg) =>
                IF v.kind # "array"
                THEN ~r.ok /\ r.err = InvalidPath("array")
                ELSE IF NamedIndex(LastSeg) >= Len(v.kids)
                THEN ~r.ok /\ r.err.kind = "IndexOutOfBounds"
                ELSE r.ok /\ r.value = v.kids[NamedIndex(LastSeg) + 1].node

\* a get whose second segment, a resolved index variable, is out of bounds
GetOutOfBoundsWitness ==
    /\ call.op = "get"
    /\ Len(CallSegs) = 2
    /\ LastSeg.tag = "IndexVariable"
    /\ BeforeLast.ok
    /\ call.result.err.kind = "IndexOutOfBounds"

\* C6: write returns success, the missing-context ParseError,
\* MissingVariable or InvalidVariableValue, and nothing else; a path without
\* variable segments always succeeds.
WriteErrorKinds ==
    call.op \in {"write", "write_again"} =>
        /\ \/ call.result.ok
           \/ call.result.err = MissingContext
           \/ call.result.err.kind \in {"MissingVariable", "InvalidVariableValue"}
        /\ ~has_variables(call.path) => call.result.ok

\* a successful write through a scalar root with a literal path
WriteOverScalarWitness ==
    /\ call.op = "write"
    /\ call.before = Number(1)
    /\ Len(CallSegs) = 2
    /\ ~has_variables(call.path)
    /\ call.result.ok

\* C7: a write that returns an error leaves the caller's slot as it was.
FailedWriteKeepsSlot ==
    (call.op = "write" /\ ~call.result.ok) => tree = call.before

\* a write with a slot that fails at its second segment, after a first
\* segment that the tree does not hold
FailedAfterVivifyWitness ==
    /\ call.op = "write"
    /\ call.slot
    /\ Len(CallSegs) = 2
    /\ call.result.err.kind \in {"MissingVariable", "InvalidVariableValue"}
    /\ ~get(PathOf(<<CallSegs[1]>>), call.before, call.vars).ok
    /\ Resolved(CallSegs[1], call.vars).ok

\* C8: idempotence: writing the same value at the same path with the same
\* bindings to the tree a write returned returns that tree again.
WriteIdempotent ==
    call.op = "write_again" =>
        call.result.ok /\ call.result.value = call.first.value

\* a repeated write through an index variable whose first write changed the
\* tree
RepeatedWriteWitness ==
    /\ call.op = "write_again"
    /\ call.first.value # call.before
    /\ \E k \in 1..Len(CallSegs) : CallSegs[k].tag = "IndexVariable"
    /\ call.result.ok

\* C15: get and write on a path with a variable segment, called without
\* bindings, return the missing-context ParseError whatever the tree holds,
\* also when a literal segment before the variable does not resolve; the
\* write leaves the caller's slot as it was.
MissingContextFirst ==
    (/\ call.op \in {"get", "write"}
     /\ \E k \in 1..Len(CallSegs) : IsVariableSegment(CallSegs[k])
     /\ ~call.vars.some)
    => /\ ~call.result.ok
       /\ call.result.err.kind = "ParseError"
       /\ call.result.err = MissingContext
       /\ tree = call.before

\* a get without bindings whose literal first segment is not in the tree and
\* whose second segment is a variable
MissingContextWitness ==
    /\ call.op = "get"
    /\ ~call.vars.some
    /\ Len(CallSegs) = 2
    /\ ~IsVariableSegment(CallSegs[1])
    /\ IsVariableSegment(CallSegs[2])
    /\ ~get(PathOf(<<CallSegs[1]>>), call.before, NoVars).ok
    /\ call.result.err = MissingContext

\* the segment is bound: its name has a text in the call's bindings
IsBound(seg) == seg.text \in DOMAIN call.vars.map
BoundTo(seg) == call.vars.map[seg.text]

\* the error of resolving segment k against the bindings, if there is one
ResolutionError(seg) ==
    IF ~IsVariableSegment(seg) THEN NoError
    ELSE IF ~IsBound(seg) THEN MissingVariable(seg.text)
    ELSE IF seg.tag = "IndexVariable" /\ ~parse_usize(BoundTo(seg)).ok
    THEN InvalidVariableValue(BoundTo(seg))
    ELSE NoError

\* the literal segment a resolvable segment stands for
LiteralOf(seg) ==
    CASE seg.tag = "KeyVariable" -> KeyString(BoundTo(seg))
      [] seg.tag = "IndexVariable" -> Index(parse_usize(BoundTo(seg)).val)
      [] OTHER -> seg

\* the positions of the segments that do not resolve
Unresolved == {k \in 1..Len(CallSegs) : ResolutionError(CallSegs[k]) # NoError}
FirstUnresolved == CHOOSE k \in Unresolved : \A j \in Unresolved : k <= j

\* the literal path of the first n segments
LiteralPath(n) == PathOf([k \in 1..n |-> LiteralOf(CallSegs[k])])

\* C16: with bindings supplied, get and write treat a bound key variable as
\* the literal string key of the bound text and a bound index variable as
\* the literal index the text parses to; the first segment that does not
\* resolve gives MissingVariable(name) when the name is absent and
\* InvalidVariableValue(text) when an index variable's text is no unsigned
\* integer: from write always, from get when the segments before it
\* resolve in the tree (get returns their error otherwise).
VariableResolution ==
    (call.op \in {"get", "write"} /\ call.vars.some) =>
        IF Unresolved = {} THEN
            IF call.op = "get"
            THEN call.result =
                   CallResult(get(LiteralPath(Len(CallSegs)), call.before, NoVars))
            ELSE LET w == write(LiteralPath(Len(CallSegs)),
                                IF call.slot THEN SomeData(call.before) ELSE NoData,
                                call.value, NoVars)
                 IN  /\ call.result = CallResult(w)
                     /\ call.slot => tree = w.slot.value
        ELSE LET e == ResolutionError(CallSegs[FirstUnresolved])
                 before == get(LiteralPath(FirstUnresolved - 1), call.before, NoVars)
             IN  /\ ~call.result.ok
                 /\ IF call.op = "write" \/ before.ok
                    THEN call.result.err = e
                    ELSE call.result.err = before.err

\* a get whose index variable is bound to a text that is no number, and a
\* key variable bound to the text of a number before it
InvalidIndexTextWitness ==
    /\ call.op = "get"
    /\ call.vars.some
    /\ Len(CallSegs) = 2
    /\ CallSegs[1].tag = "KeyVariable" /\ IsBound(CallSegs[1])
    /\ BoundTo(CallSegs[1]) = <<"1">>
    /\ CallSegs[2].tag = "IndexVariable"
    /\ call.result.err = InvalidVariableValue(<<"a">>)

\* segment k is an integer key, or a string key of the decimal text of one
IsNumericKey(seg) ==
    \/ seg.tag = "KeyInt"
    \/ seg.tag = "KeyString" /\ IsDecimalText(seg.text)

\* the key of the other variant for the same entry
OtherVariant(seg) ==
    IF seg.tag = "KeyInt" THEN KeyString(int_to_string(seg.num))
    ELSE KeyInt(parse_i64(seg.text).val)

\* the call's path with segment k replaced by the other variant
SwappedAt(k) == PathOf([CallSegs EXCEPT ![k] = OtherVariant(CallSegs[k])])

\* every result of a variable iterator pulled to its end
RECURSIVE IterateAll(_, _, _, _)
IterateAll(stack, visited, p, root) ==
    LET r == iterator_next(stack, visited, p, root)
    IN  IF r.result.some
        THEN <<r.result>> \o IterateAll(r.stack, r.visited, p, root)
        ELSE <<>>

IterateToEnd(p, root) == IterateAll(new_iterator, {}, p, root)

\* C19: Key(Int(i)) and Key(String(d)), d the decimal string of i, address
\* the same object entry: the call's get or write, and iterate over the
\* call's tree, give the same result for the call's path and for the path
\* with one such key replaced by the other variant.
IntAndTextKeyAgree ==
    call.op \in {"get", "write"} =>
        \A k \in {j \in 1..Len(CallSegs) : IsNumericKey(CallSegs[j])} :
            /\ call.op = "get" =>
                  call.result = CallResult(get(SwappedAt(k), call.before, call.vars))
            /\ call.op = "write" =>
                  LET w == write(SwappedAt(k),
                                 IF call.slot THEN SomeData(call.before) ELSE NoData,
                                 call.value, call.vars)
                  IN  /\ call.result = CallResult(w)
                      /\ call.slot => tree = w.slot.value
            /\ IterateToEnd(call.path, call.before) = IterateToEnd(SwappedAt(k), call.before)

\* a get through the integer key 1 that found the entry "1", in a tree over
\* which iterate of the path has a result
IntKeyFoundWitness ==
    /\ call.op = "get"
    /\ call.result.ok
    /\ \E k \in 1..Len(CallSegs) : CallSegs[k] = KeyInt(1)
    /\ IterateToEnd(call.path, call.before) # <<>>

\* C20: read-your-write: after a successful write, get with the same path
\* and bindings on the returned tree succeeds and returns the value
\* written, for every path (the empty one included), tree and bindings.
ReadYourWrite ==
    (call.op = "write" /\ call.result.ok) =>
        get(call.path, call.result.value, call.vars) = ValOk(call.value)

\* a successful write through an index beyond the array's length, into a
\* tree that held something else at the first segment
WriteBeyondLengthWitness ==
    /\ call.op = "write"
    /\ call.result.ok
    /\ Len(CallSegs) = 2
    /\ CallSegs[2] = Index(2)
    /\ get(PathOf(<<CallSegs[1]>>), call.before, call.vars).ok
    /\ ~is_array(get(PathOf(<<CallSegs[1]>>), call.before, call.vars).value)
    /\ get(call.path, call.result.value, call.vars) = ValOk(call.value)

\* the key text or the index that a resolved segment addresses
SlotKey(seg) ==
    IF LiteralOf(seg).tag = "KeyInt" THEN int_to_string(LiteralOf(seg).num)
    ELSE LiteralOf(seg).text
SlotIndex(seg) == LiteralOf(seg).num
IsIndexLike(seg) == LiteralOf(seg).tag = "Index"

\* the value at the location before segment k + 1 in the tree handed to the
\* call (Null when the caller passes none), if the tree has that location,
\* and in the tree returned
WriteInput == IF call.slot THEN call.before ELSE Null
LocationBefore(k) == get(LiteralPath(k), WriteInput, NoVars)
LocationAfter(k) == get(LiteralPath(k), call.result.value, NoVars)

\* C24: autovivification: at every location of the written path, a value
\* that is not of the kind the next segment requires is replaced by a fresh
\* container holding only the addressed slot (an array has Null at every
\* lower index); an array of the right kind keeps its elements and is padded
\* with Null up to the required index; an object of the right kind keeps
\* its other entries.
Autovivification ==
    (call.op = "write" /\ call.result.ok) =>
        \A k \in 0..(Len(CallSegs) - 1) :
            LET seg == CallSegs[k + 1]
                old == LocationBefore(k)
                new == LocationAfter(k).value
            IN  /\ LocationAfter(k).ok
                /\ new.kind = IF IsIndexLike(seg) THEN "array" ELSE "object"
                /\ (old.ok /\ old.value.kind # new.kind) =>
                      IF IsIndexLike(seg)
                      THEN /\ Len(new.kids) = SlotIndex(seg) + 1
                           /\ \A j \in 1..SlotIndex(seg) : new.kids[j].node = Null
                      ELSE /\ Len(new.kids) = 1
                           /\ new.kids[1].key = SlotKey(seg)
                /\ (old.ok /\ old.value.kind = "array" /\ IsIndexLike(seg)) =>
                      LET had == Len(old.value.kids)
                      IN  /\ Len(new.kids) =
                                IF had > SlotIndex(seg) THEN had
                                ELSE SlotIndex(seg) + 1
                          /\ \A j \in 1..had :
                                j # SlotIndex(seg) + 1
                                    => new.kids[j] = old.value.kids[j]
                          /\ \A j \in (had + 1)..SlotIndex(seg) :
                                new.kids[j].node = Null
                /\ (old.ok /\ old.value.kind = "object" /\ ~IsIndexLike(seg)) =>
                      \A j \in 1..Len(old.value.kids) :
                          old.value.kids[j].key # SlotKey(seg) =>
                              \E i \in 1..Len(new.kids) :
                                  new.kids[i] = old.value.kids[j]

\* a write through index 2 of an array of fewer elements, one of them not
\* Null, with a further segment behind it
PaddedArrayWitness ==
    /\ call.op = "write"
    /\ call.result.ok
    /\ Len(CallSegs) = 2
    /\ IsIndexLike(CallSegs[1]) /\ SlotIndex(CallSegs[1]) = 2
    /\ call.slot
    /\ is_array(call.before)
    /\ Len(call.before.kids) \in 1..2
    /\ call.before.kids[1].node # Null
    /\ Len(call.result.value.kids) = 3

\* the literal segments that resolve to entry j of a container
SegmentsTo(v, j) ==
    IF is_array(v) THEN {Index(j - 1)}
    ELSE {KeyString(v.kids[j].key)}
         \cup (IF IsDecimalText(v.kids[j].key)
               THEN {KeyInt(parse_i64(v.kids[j].key).val)} ELSE {})

\* the literal paths that resolve in a tree, as segment sequences
RECURSIVE ResolvingPaths(_)
ResolvingPaths(v) ==
    {<<>>} \cup UNION { { <<seg>> \o q : seg \in SegmentsTo(v, j),
                                         q \in ResolvingPaths(v.kids[j].node) } :
                        j \in 1..Len(v.kids) }

IsPrefixOf(a, b) == Len(a) <= Len(b) /\ SubSeq(b, 1, Len(a)) = a

\* a path with every integer key as the string key of its decimal text: two
\* literal paths address the same location when these are equal
SameLocation(segs) ==
    [k \in 1..Len(segs) |->
        IF segs[k].tag = "KeyInt" THEN KeyString(int_to_string(segs[k].num))
        ELSE segs[k]]

\* the written path with its variables resolved
WrittenPath == LiteralPath(Len(CallSegs)).segments

\* every container that the tree holds along the written path has the kind
\* that the path requires there
KindsFit ==
    \A k \in 0..(Len(CallSegs) - 1) :
        (LocationBefore(k).ok
           /\ LocationBefore(k).value.kind \in {"object", "array"})
        => LocationBefore(k).value.kind =
              IF IsIndexLike(CallSegs[k + 1]) THEN "array" ELSE "object"

\* the arrays of the tree along the written path have grown by Null only
ArraysOnlyGrow ==
    \A k \in 0..(Len(CallSegs) - 1) :
        (LocationBefore(k).ok /\ is_array(LocationBefore(k).value)) =>
            LET old == LocationBefore(k).value.kids
                new == LocationAfter(k).value.kids
            IN  /\ Len(new) >= Len(old)
                /\ \A j \in 1..Len(old) :
                      j # SlotIndex(CallSegs[k + 1]) + 1 => new[j] = old[j]
                /\ \A j \in (Len(old) + 1)..Len(new) :
                      j # SlotIndex(CallSegs[k + 1]) + 1 => new[j].node = Null

\* C25 as stated: when the containers along the written path have the
\* required kinds, every literal path that resolved in the input tree and
\* is neither a prefix nor an extension of the written path, as a sequence
\* of segments, resolves to the same value in the result, and arrays on the
\* path only grow by Null padding.
WriteFrameBySegments ==
    (call.op = "write" /\ call.result.ok /\ KindsFit) =>
        /\ \A q \in ResolvingPaths(WriteInput) :
              (~IsPrefixOf(q, WrittenPath) /\ ~IsPrefixOf(WrittenPath, q)) =>
                  get(PathOf(q), call.result.value, NoVars)
                      = get(PathOf(q), WriteInput, NoVars)
        /\ ArraysOnlyGrow

\* C25, amended: the same with prefix and extension taken by location, an
\* integer key and the string key of its decimal text being the same
\* segment.
WriteFrame ==
    (call.op = "write" /\ call.result.ok /\ KindsFit) =>
        /\ \A q \in ResolvingPaths(WriteInput) :
              (/\ ~IsPrefixOf(SameLocation(q), SameLocation(WrittenPath))
               /\ ~IsPrefixOf(SameLocation(WrittenPath), SameLocation(q))) =>
                  get(PathOf(q), call.result.value, NoVars)
                      = get(PathOf(q), WriteInput, NoVars)
        /\ ArraysOnlyGrow

\* a write of one entry of an object that changed the tree and left a
\* sibling entry that is not Null
SiblingKeptWitness ==
    /\ call.op = "write"
    /\ call.result.ok
    /\ call.slot
    /\ KindsFit
    /\ is_object(call.before)
    /\ call.result.value # call.before
    /\ \E q \in ResolvingPaths(call.before) :
          /\ Len(q) = 1
          /\ ~IsPrefixOf(SameLocation(q), SameLocation(WrittenPath))
          /\ get(PathOf(q), call.before, NoVars).value # Null
          /\ get(PathOf(q), call.result.value, NoVars)
                = get(PathOf(q), call.before, NoVars)

\* the path of the first k segments of the call's path
PrefixPath(k) == PathOf(SubSeq(CallSegs, 1, k))

\* C26: get returns the error of the earliest segment that fails: a failed
\* get (past the test for a variable context, which looks at no segment)
\* has the result of get on the path cut after its first failing segment,
\* so no later segment, resolvable or not, has a part in it.
GetEarliestError ==
    (/\ call.op = "get"
     /\ ~call.result.ok
     /\ (call.vars.some \/ \A k \in 1..Len(CallSegs) :
                              ~IsVariableSegment(CallSegs[k])))
    => \E k \in 1..Len(CallSegs) :
          /\ \A j \in 0..(k - 1) : get(PrefixPath(j), call.before, call.vars).ok
          /\ call.result = CallResult(get(PrefixPath(k), call.before, call.vars))

\* a get whose first segment is not in the tree and whose second segment is
\* a variable that does not resolve
LaterVariableWitness ==
    /\ call.op = "get"
    /\ call.vars.some
    /\ Len(CallSegs) = 2
    /\ ResolutionError(CallSegs[2]) # NoError
    /\ call.result.err.kind \in {"NotFound", "InvalidPath", "IndexOutOfBounds"}

----------------------------------------------------------------------------
(***************************************************************************)
(* Properties of the walker and of the variable iterator.                  *)
(***************************************************************************)
\* the positions of the nodes of a tree, the root included
RECURSIVE Positions(_)
Positions(v) ==
    {<<>>} \cup UNION { { <<k>> \o q : q \in Positions(v.kids[k].node) } :
                        k \in 1..Len(v.kids) }

IsProperPrefix(a, b) == Len(a) < Len(b) /\ SubSeq(b, 1, Len(a)) = a

\* C3: walk emits every node of the tree exactly once, N pairs for N nodes,
\* every descendant before each of its ancestors, and the root last with
\* the empty path.
WalkerCompletePostOrder ==
    walker.state = "walking" =>
        LET em == walker.emitted
        IN  /\ \A i, j \in 1..Len(em) :
                  /\ (i # j => em[i].ref # em[j].ref)
                  /\ IsProperPrefix(em[i].ref, em[j].ref) => j < i
            /\ walker.done =>
                  /\ Len(em) = Cardinality(Positions(tree))
                  /\ {em[i].ref : i \in 1..Len(em)} = Positions(tree)
                  /\ em[Len(em)] = [path |-> NewPath, ref |-> <<>>]

\* a finished walk of a tree that nests containers two deep
WalkNestedWitness ==
    /\ walker.state = "walking"
    /\ walker.done
    /\ \E ref \in Positions(tree) : Len(ref) = 1 /\ NodeAt(tree, ref).kids # <<>>
    /\ Len(walker.emitted) >= 5

\* C17: within one iterate call no two emitted results carry the same
\* bindings, and the visited set holds the bindings of the results emitted
\* so far, so that a completed branch is dropped exactly when a result with
\* its bindings was emitted before it.
IterateDeduplicates ==
    iter.state = "iterating" =>
        /\ \A j, k \in 1..Len(iter.results) :
              iter.results[j].bindings = iter.results[k].bindings => j = k
        /\ iter.visited = {iter.results[k].bindings : k \in 1..Len(iter.results)}

\* a search with two variables that has emitted three results
ThreeResultsWitness ==
    /\ iter.state = "iterating"
    /\ Cardinality(iter.path.variable_names) = 2
    /\ Len(iter.results) = 3
    /\ ~iter.done

\* C21: for every pair (p, v) that walk emits, get(p, tree) without
\* bindings succeeds and returns the node v, for every tree, objects with
\* integer-looking keys such as "01" or "+1" included.
WalkedPathsResolve ==
    walker.state = "walking" =>
        \A k \in 1..Len(walker.emitted) :
            get(walker.emitted[k].path, tree, NoVars)
                = ValOk(NodeAt(tree, walker.emitted[k].ref))

\* the text a caller passes to get for a bound value
BoundText(b) == IF b.kind = "string" THEN b.text ELSE int_to_string(b.num)

\* the keys and the indices that occur in a tree
RECURSIVE TreeKeys(_)
TreeKeys(v) ==
    (IF is_object(v) THEN {v.kids[k].key : k \in 1..Len(v.kids)} ELSE {})
    \cup UNION {TreeKeys(v.kids[k].node) : k \in 1..Len(v.kids)}

RECURSIVE TreeIndices(_)
TreeIndices(v) ==
    (IF is_array(v) THEN 0..(Len(v.kids) - 1) ELSE {})
    \cup UNION {TreeIndices(v.kids[k].node) : k \in 1..Len(v.kids)}

\* the assignments of a path's variables: a key of the tree for every key
\* variable and an index of the tree for every index variable
Assignments(p, root) ==
    { f \in [p.variable_names ->
                {BoundKey(key) : key \in TreeKeys(root)}
                \cup {BoundIndex(i) : i \in TreeIndices(root)}] :
        \A k \in 1..Len(p.segments) :
            /\ p.segments[k].tag = "KeyVariable"
                  => f[p.segments[k].text].kind = "string"
            /\ p.segments[k].tag = "IndexVariable"
                  => f[p.segments[k].text].kind = "number" }

AsBindings(f) == SomeVars([name \in DOMAIN f |-> BoundText(f[name])])

\* the assignments under which the path resolves, with the value reached
Resolutions(p, root) ==
    { [bindings |-> f, value |-> get(p, root, AsBindings(f)).value] :
        f \in {g \in Assignments(p, root) : get(p, root, AsBindings(g)).ok} }

IterResults ==
    { [bindings |-> iter.results[k].bindings,
       value |-> NodeAt(tree, iter.results[k].ref)] :
        k \in 1..Len(iter.results) }

\* C4: iterate yields one result for every assignment of the variables under
\* which the path resolves, with the value reached, and nothing else; over
\* T teams of M members each, $t.#x.m.#y yields T*M results.
IterateComplete ==
    (iter.state = "iterating" /\ iter.done) =>
        /\ IterResults = Resolutions(iter.path, tree)
        /\ Len(iter.results) = Cardinality(Resolutions(iter.path, tree))
        /\ \A t, m \in 0..MaxTeams :
              (iter.path = TeamsPath /\ tree = TeamsTree(t, m))
                  => Len(iter.results) = t * m

\* a finished search of the teams path over two teams of two members
IterateTeamsWitness ==
    /\ iter.state = "iterating"
    /\ iter.done
    /\ iter.path = TeamsPath
    /\ tree = TeamsTree(2, 2)
    /\ Len(iter.results) = 4

\* C22: for every result (bindings, v) of iterate, get with the path, the
\* tree and the bindings in string form (the key, or the decimal text of
\* the index) succeeds and returns v.
IterateResultsResolve ==
    iter.state = "iterating" =>
        \A k \in 1..Len(iter.results) :
            get(iter.path, tree, AsBindings(iter.results[k].bindings))
                = ValOk(NodeAt(tree, iter.results[k].ref))

\* a result that binds a key variable and an index variable
KeyAndIndexBoundWitness ==
    /\ iter.state = "iterating"
    /\ \E k \in 1..Len(iter.results) :
          \E x, i \in DOMAIN iter.results[k].bindings :
              /\ iter.results[k].bindings[x].kind = "string"
              /\ iter.results[k].bindings[i].kind = "number"
              /\ iter.results[k].bindings[i].num = 1

\* the children of a node that a segment leads to: the entry of a literal
\* key, the element of a literal index, every entry for a key variable and
\* every element for an index variable
Steps(seg, v) ==
    CASE seg.tag = "KeyString" ->
            {j \in 1..Len(v.kids) : is_object(v) /\ v.kids[j].key = seg.text}
      [] seg.tag = "KeyInt" ->
            {j \in 1..Len(v.kids) :
                is_object(v) /\ v.kids[j].key = int_to_string(seg.num)}
      [] seg.tag = "Index" ->
            {j \in 1..Len(v.kids) : is_array(v) /\ j = seg.num + 1}
      [] seg.tag = "KeyVariable" -> {j \in 1..Len(v.kids) : is_object(v)}
      [] seg.tag = "IndexVariable" -> {j \in 1..Len(v.kids) : is_array(v)}

\* the branches of the search that reach the end of the path, each the
\* position of the node it ends at
RECURSIVE Branches(_, _, _, _)
Branches(segs, k, root, ref) ==
    IF k > Len(segs) THEN {ref}
    ELSE UNION { Branches(segs, k + 1, root, Append(ref, j)) :
                   j \in Steps(segs[k], NodeAt(root, ref)) }

\* the states of the queue that have reached the end of the path
CompletedInQueue ==
    {k \in 1..Len(iter.stack) :
        iter.stack[k].current_segment_idx >= Len(iter.path.segments)}

\* C23: the duplicate check of iterate never suppresses a result: completed
\* branches waiting in the queue differ in their bindings from each other
\* and from every result emitted, and a finished search has emitted one
\* result for every branch that reaches the end of the path.
DedupNeverSuppresses ==
    iter.state = "iterating" =>
        /\ \A j, k \in CompletedInQueue :
              iter.stack[j].variable_values = iter.stack[k].variable_values
                  => j = k
        /\ \A k \in CompletedInQueue :
              iter.stack[k].variable_values \notin iter.visited
        /\ iter.done =>
              /\ {iter.results[k].ref : k \in 1..Len(iter.results)}
                    = Branches(iter.path.segments, 1, tree, <<>>)
              /\ Len(iter.results)
                    = Cardinality(Branches(iter.path.segments, 1, tree, <<>>))

\* a result was emitted while two further completed branches wait in the
\* queue
CompletedWaitingWitness ==
    /\ iter.state = "iterating"
    /\ iter.results # <<>>
    /\ Cardinality(CompletedInQueue) >= 2

\* the first place where two positions of the same length differ
FirstDifference(a, b) ==
    CHOOSE d \in 1..Len(a) : a[d] # b[d] /\ \A e \in 1..(d - 1) : a[e] = b[e]

\* C27: iterate works its pending states first in, first out: the states of
\* the queue are in the order of the segments they have reached, and the
\* results come in the lexicographic order of the branch choices: of two
\* results the earlier one took, at the first variable where they differ,
\* the entry that comes earlier in the container's iteration order.
IterateFifoOrder ==
    iter.state = "iterating" =>
        /\ \A j, k \in 1..Len(iter.stack) :
              j < k => iter.stack[j].current_segment_idx
                          <= iter.stack[k].current_segment_idx
        /\ \A j, k \in 1..Len(iter.results) :
              j < k =>
                 LET a == iter.results[j].ref
                     b == iter.results[k].ref
                 IN  /\ Len(a) = Len(b) /\ a # b
                     /\ a[FirstDifference(a, b)] < b[FirstDifference(a, b)]
                     /\ IsVariableSegment(
                            iter.path.segments[FirstDifference(a, b)])

\* four results of the teams path: the first two differ in the second
\* variable, the second and the third in the first
TeamsOrderWitness ==
    /\ iter.state = "iterating"
    /\ iter.path = TeamsPath
    /\ Len(iter.results) = 4
    /\ FirstDifference(iter.results[1].ref, iter.results[2].ref) = 4
    /\ FirstDifference(iter.results[2].ref, iter.results[3].ref) = 2

WalkerEnded == walker.state = "walking" /\ walker.done
IteratorEnded == iter.state = "iterating" /\ iter.done

\* C28: both enumerators terminate: under a caller that keeps calling next,
\* a walker and a variable iterator reach None, and once next has returned
\* None every later call returns None and leaves the enumerator as it is.
EnumeratorsTerminate ==
    /\ (walker.state = "walking") ~> WalkerEnded
    /\ (iter.state = "iterating") ~> IteratorEnded
    /\ [][WalkerEnded => walker' = walker]_vars
    /\ [][IteratorEnded => iter' = iter]_vars

\* a walker that has returned None after emitting four nodes or more
WalkerEndedWitness ==
    /\ WalkerEnded
    /\ walker.stack = <<>>
    /\ Len(walker.emitted) >= 4

\* a segment that carries a text: a string key or a variable
IsNamed(seg) == seg.tag \in {"KeyString", "KeyVariable", "IndexVariable"}

\* the text without its first `.`, when it starts with one after an
\* optional `$`
WithoutLeadingDot(t) ==
    IF t # <<>> /\ t[1] = "." THEN Tail(t)
    ELSE IF Len(t) > 1 /\ t[1] = "$" /\ t[2] = "." THEN <<"$">> \o Tail(Tail(t))
    ELSE t

\* C29: parse never produces an empty name: every string key and every
\* variable that parse pushes, in the returned path and before an error, has
\* a non-empty text; a segment is completed only from a non-empty text, so
\* the path has one segment for each completion and a leading `.` changes
\* nothing; a lone unescaped `#` outside brackets is the string key `#`.
ParseNeverEmptyName ==
    lastop.name = "parse" =>
        /\ \A k \in 1..Len(path.segments) :
              IsNamed(path.segments[k]) => path.segments[k].text # <<>>
        /\ \A k \in 1..Len(events) :
              events[k].ok =>
                /\ events[k].segment # <<>>
                /\ IsNamed(events[k].pushed) => events[k].pushed.text # <<>>
                /\ (events[k].raw = <<"#">> /\ ~events[k].bracket)
                      => events[k].pushed = KeyString(<<"#">>)
        /\ outcome.kind = "Ok" => Len(path.segments) = Len(events)
        /\ parse(WithoutLeadingDot(lastop.text)) =
              (IF outcome.kind = "Ok" THEN PathOk(path)
               ELSE PathErr(NewPath, outcome))

\* `.#.a`: the leading `.` makes no segment and the lone `#` is a string key
LoneHashWitness ==
    /\ lastop.name = "parse"
    /\ lastop.text = <<".", "#", ".", "a">>
    /\ outcome.kind = "Ok"
    /\ path.segments = <<KeyString(<<"#">>), KeyString(<<"a">>)>>

\* the last builder call was a variable push that returned DuplicateVariable
DuplicateRefused ==
    /\ lastop.name \in {"push_key_variable", "push_index_variable"}
    /\ outcome.kind = "DuplicateVariable"

\* a builder call has just been made
IsBuilderCall ==
    /\ lastop'.name \in {"push_string_key", "push_int_key", "push_index",
                         "push_key_variable", "push_index_variable"}
    /\ ~rt'.done
    /\ <<path, outcome, lastop, events, rt>> # <<path', outcome', lastop', events', rt'>>

\* the segment a successful builder call appends
Pushed(op) ==
    IF op.name = "push_string_key" THEN KeyString(op.text)
    ELSE IF op.name = "push_int_key" THEN KeyInt(op.num)
    ELSE IF op.name = "push_index" THEN Index(op.num)
    ELSE IF op.name = "push_key_variable" THEN KeyVariable(op.text)
    ELSE IndexVariable(op.text)

\* C30: a push_key_variable or push_index_variable call that returns
\* DuplicateVariable leaves the segments and the used-name set as they were
\* before the call, and the path takes further pushes: after the refusal a
\* key, an index or a variable of an unused name is appended to the same
\* segments, and a used name is refused again.
DuplicatePushFrame ==
    /\ [][(IsBuilderCall /\ outcome'.kind = "DuplicateVariable") =>
            /\ lastop'.name \in {"push_key_variable", "push_index_variable"}
            /\ path'.segments = path.segments
            /\ path'.variable_names = path.variable_names]_vars
    /\ [][(DuplicateRefused /\ IsBuilderCall) =>
            IF IsVariableSegment(Pushed(lastop'))
               /\ lastop'.text \in path.variable_names
            THEN outcome' = DuplicateVariable(lastop'.text) /\ path' = path
            ELSE /\ outcome' = NoError
                 /\ path'.segments = Append(path.segments, Pushed(lastop'))
                 /\ path'.variable_names =
                       IF IsVariableSegment(Pushed(lastop'))
                       THEN path.variable_names \cup {lastop'.text}
                       ELSE path.variable_names]_vars

\* a key variable refused on a path that holds its name and a later segment
DuplicateRefusedWitness ==
    /\ DuplicateRefused
    /\ lastop.name = "push_key_variable"
    /\ Len(path.segments) = 2
    /\ path.segments[1] = KeyVariable(lastop.text)
    /\ ~IsVariableSegment(path.segments[2])

====
